---- MODULE Spec2Model ----
(***************************************************************************)
(* Order-book synchronizers of crypto-trade-analyzer: the four book        *)
(* clients (Binance, Bybit, OKX, Coinbase) as one state machine.  The      *)
(* variable ex selects the client; the per-symbol BookState, the socket,   *)
(* the subscription sets, the in-flight resyncs and the timers are the     *)
(* state.  Each handler of the source is one action.                       *)
(***************************************************************************)
EXTENDS Integers, Sequences, FiniteSets, TLC

\* ------------------------------------------------------------------ bounds
\* Price keys are 1..MaxPrice, valid quantities 0..MaxQty (0 = remove level).
MaxPrice == 1
MaxQty == 1
\* Consistency markers (update ids, seq, ts) range over 1..MaxId.
MaxId == 2
\* opts.maxBufferedDiffs / maxBufferedUpdates: capacity of the pending buffer.
MaxBuffered == 1
\* Resyncs awaiting their snapshot at once, per symbol.
MaxInflight == 1
\* Detached BookState objects still referenced by an in-flight resync.
MaxZombies == 1
\* Coinbase timers no BookState holds a handle to, per symbol.
MaxOrphans == 1
\* Applying diffs to a pair of maps: price keys 1..MaxLevel, sizes 0..MaxSize,
\* at most MaxRows rows in one diff.
MaxLevel == 2
MaxSize == 2
MaxRows == 2
\* Diffs buffered during one resync (fewer than the buffer's capacity).
MaxReplayed == 2
\* priceBucket / tick, in units of the smallest price step (0: not set).
MaxTick == 2
\* Execution simulator inputs: prices, quantities, levels per side, order size.
MaxCostPrice == 3
MaxCostQty == 2
MaxCostLevels == 2
MaxOrder == 5
\* Fee engine: modifiers per fee file, distinct contexts evaluated in a run.
MaxModifiers == 2
\* Books handed to bucketizeOrderBook: prices and levels per side.
MaxBucketPrice == 4
MaxBucketLevels == 2
MaxCalls == 2

\* ------------------------------------------------------------------- data
Null == 0 - 1
Exchanges == {"binance", "bybit", "okx", "coinbase"}
\* The adapters watch one pair at a time (currentPair).
Symbols == {"BTCUSDT"}
Prices == 1 .. MaxPrice
Ids == 1 .. MaxId

\* A wire row [price, quantity]; ok = FALSE is an element that cannot be
\* destructured (null, or the whole side missing): iterating it throws.
Row(p, q) == [p |-> p, q |-> q, ok |-> TRUE]
BadRow == [p |-> 0, q |-> 0, ok |-> FALSE]

EmptyMap == [x \in {} |-> 0]

\* No call made yet: the argument and result of the function under study.
Idle == [idle |-> TRUE]
MapSet(m, p, q) == [x \in (DOMAIN m) \cup {p} |-> IF x = p THEN q ELSE m[x]]
MapDelete(m, p) == [x \in (DOMAIN m) \ {p} |-> m[x]]

\* Result of iterating rows into one side: the map reached and whether the
\* loop threw before finishing.
Res(m, t) == [map |-> m, threw |-> t]

\* --------------------------------------------------- level upsert / delete
\* BinanceBookClient.applyEvent, one of its two loops: no validation.
RECURSIVE BinanceApplySide(_, _)
BinanceApplySide(side, rows) ==
    IF rows = <<>> THEN Res(side, FALSE)
    ELSE LET r == Head(rows) IN
         IF ~r.ok THEN Res(side, TRUE)
         ELSE IF r.q = 0 THEN BinanceApplySide(MapDelete(side, r.p), Tail(rows))
         ELSE BinanceApplySide(MapSet(side, r.p, r.q), Tail(rows))

\* BybitBookClient.upsertOrderBookEntries: skips rows with a negative or
\* non-finite price or quantity.
RECURSIVE BybitUpsertOrderBookEntries(_, _)
BybitUpsertOrderBookEntries(side, rows) ==
    IF rows = <<>> THEN Res(side, FALSE)
    ELSE LET r == Head(rows) IN
         IF ~r.ok THEN Res(side, TRUE)
         ELSE IF r.p < 0 \/ r.q < 0 THEN BybitUpsertOrderBookEntries(side, Tail(rows))
         ELSE IF r.q = 0 THEN BybitUpsertOrderBookEntries(MapDelete(side, r.p), Tail(rows))
         ELSE BybitUpsertOrderBookEntries(MapSet(side, r.p, r.q), Tail(rows))

\* An upsert that stores a zero quantity instead of deleting the key.
RECURSIVE OkxUpsertKeepsZero(_, _)
OkxUpsertKeepsZero(sideMap, arr) ==
    IF arr = <<>> THEN Res(sideMap, FALSE)
    ELSE LET r == Head(arr) IN
         IF ~r.ok THEN Res(sideMap, TRUE)
         ELSE OkxUpsertKeepsZero(MapSet(sideMap, r.p, r.q), Tail(arr))

\* OkxBookClient.upsertOrderBookEntries: skips rows with a negative or
\* non-finite quantity.
RECURSIVE OkxUpsertOrderBookEntries(_, _)
OkxUpsertOrderBookEntries(sideMap, arr) ==
    IF arr = <<>> THEN Res(sideMap, FALSE)
    ELSE LET r == Head(arr) IN
         IF ~r.ok THEN Res(sideMap, TRUE)
         ELSE IF r.q < 0 THEN OkxUpsertOrderBookEntries(sideMap, Tail(arr))
         ELSE IF r.q = 0 THEN OkxUpsertOrderBookEntries(MapDelete(sideMap, r.p), Tail(arr))
         ELSE OkxUpsertOrderBookEntries(MapSet(sideMap, r.p, r.q), Tail(arr))

\* CoinbaseBookClient.upsertRows.
RECURSIVE CoinbaseUpsertRows(_, _)
CoinbaseUpsertRows(side, rows) ==
    IF rows = <<>> THEN Res(side, FALSE)
    ELSE LET r == Head(rows) IN
         IF ~r.ok THEN Res(side, TRUE)
         ELSE IF r.q < 0 THEN CoinbaseUpsertRows(side, Tail(rows))
         ELSE IF r.q = 0 THEN CoinbaseUpsertRows(MapDelete(side, r.p), Tail(rows))
         ELSE CoinbaseUpsertRows(MapSet(side, r.p, r.q), Tail(rows))

\* Both sides of one diff: bids first, asks only if the bids loop finished.
\* [bids, asks, threw]
Both(rb, asksBefore, ra) ==
    IF rb.threw THEN [bids |-> rb.map, asks |-> asksBefore, threw |-> TRUE]
    ELSE [bids |-> rb.map, asks |-> ra.map, threw |-> ra.threw]

\* BinanceBookClient.applyEvent(state, evt).
BinanceApplyEvent(bids, asks, evt) ==
    Both(BinanceApplySide(bids, evt.b), asks, BinanceApplySide(asks, evt.a))

\* BybitBookClient.applyUpdate(state, update), the two maps.
BybitApplyUpdate(bids, asks, update) ==
    Both(BybitUpsertOrderBookEntries(bids, update.b), asks,
         BybitUpsertOrderBookEntries(asks, update.a))

\* OkxBookClient.applyUpdate(state, update).
OkxApplyUpdate(bids, asks, update) ==
    Both(OkxUpsertOrderBookEntries(bids, update.b), asks,
         OkxUpsertOrderBookEntries(asks, update.a))

\* CoinbaseBookClient.applyUpdate(state, update): one loop over the changes,
\* each [side, price, size]; a change is a row tagged with its side.
RECURSIVE CoinbaseApplyUpdate(_, _, _)
CoinbaseApplyUpdate(bids, asks, changes) ==
    IF changes = <<>> THEN [bids |-> bids, asks |-> asks, threw |-> FALSE]
    ELSE LET c == Head(changes) IN
         IF ~c.row.ok THEN [bids |-> bids, asks |-> asks, threw |-> TRUE]
         ELSE IF c.row.q < 0 THEN CoinbaseApplyUpdate(bids, asks, Tail(changes))
         ELSE IF c.side = "buy"
              THEN CoinbaseApplyUpdate(
                       IF c.row.q = 0 THEN MapDelete(bids, c.row.p)
                       ELSE MapSet(bids, c.row.p, c.row.q), asks, Tail(changes))
              ELSE CoinbaseApplyUpdate(bids,
                       IF c.row.q = 0 THEN MapDelete(asks, c.row.p)
                       ELSE MapSet(asks, c.row.p, c.row.q), Tail(changes))

\* ------------------------------------------------------------------ state
VARIABLES
    ex,          \* which book client this is
    opts,        \* this.opts: maxBufferedDiffs (Binance, Bybit) / maxBufferedUpdates
    ws,          \* this.ws: "none", or the socket's readyState
    wsState,     \* this.wsState
    desired,     \* desiredStreams / desiredTopics / desiredArgs / desiredProducts
    subscribed,  \* subscribedStreams / ...Topics / ...Args / ...Products
    states,      \* this.states: symbol -> BookState (a function on the watched symbols)
    listeners,   \* this.listeners
    inflight,    \* symbol -> resyncs awaiting their snapshot on the symbol's BookState
    zombies,     \* symbol -> BookStates removed from this.states that resyncs still hold
    resub,       \* Coinbase: pending resubscribe-delay callbacks [att, det] per symbol
    orphans,     \* Coinbase: pending resync timers no live BookState holds, per symbol
    connWait,    \* the call suspended in `await this.connect()`, if any
    rc,          \* position of the onclose -> reconnect() chain
    sent,        \* the messages the last handler sent on the socket
    emitted,     \* the book the last handler delivered to the listeners (or NoBook)
    book,        \* a pair of maps that diffs are applied to, one after the other
    last,        \* per side and price, the quantity of the last row written to it
    snapshot,    \* the snapshot a resync received
    buffered,    \* the diffs that resync finds in the buffer, in arrival order
    received,    \* history: the diffs the socket delivered for the watched pair, in order
    arg,         \* the arguments of the pure function under study
    ret,         \* what that function returned for arg (Idle before the call)
    fees,        \* the exchange's FeeData (the imported fees.<version>.json object)
    seen,        \* the fee contexts evaluated so far, each with its first FeeRateResult
    currentPair, \* this.currentPair of the exchange adapter ("" when undefined)
    liveReady,   \* liveReadyRef.current[id] of useExchangeEngine
    costOn,      \* the book the last step ran the cost calculator on, if it did
    priceCache,  \* USDConverter.priceCache: symbol -> entry, or NoEntry
    inflightRequests, \* USDConverter.inflightRequests: symbol -> fetch, 0 without the key
    localStorage, \* symbol -> what the store holds under the converter's key
    fetches,     \* the fetchPromise closures of fetchUSDPrice, in creation order
    calls,       \* the convert and getPriceInfo calls made, in call order
    now,         \* Date.now()
    hook         \* useExchangeEngine: its refs and state for one exchange id

clientVars == <<ex, opts, ws, wsState, desired, subscribed, states, listeners, inflight,
                zombies, resub, orphans, connWait, rc>>
outVars == <<sent, emitted>>
applyVars == <<book, last>>
replayVars == <<snapshot, buffered, received>>
converterVars == <<priceCache, inflightRequests, localStorage, fetches, calls, now>>
pureVars == <<arg, ret, fees, seen, converterVars>>
engineVars == <<currentPair, liveReady, costOn, hook>>
vars == <<clientVars, outVars, applyVars, replayVars, pureVars, engineVars>>

\* The assets the converter is asked about: one that is priced by the price
\* sources and one stablecoin.
ConverterSymbols == {"BTC"}

NoEntry == [absent |-> TRUE]

\* new USDConverter(): empty caches, nothing in flight; nothing stored.
ConverterNew ==
    /\ priceCache = [s \in ConverterSymbols |-> NoEntry]
    /\ inflightRequests = [s \in ConverterSymbols |-> 0]
    /\ localStorage = [s \in ConverterSymbols |-> [kind |-> "missing"]]
    /\ fetches = <<>>
    /\ calls = <<>>
    /\ now = 0

NoBook == [present |-> FALSE, bids |-> <<>>, asks |-> <<>>]
NoWait == [kind |-> "none", sym |-> ""]
NoMaps == [bids |-> EmptyMap, asks |-> EmptyMap]
NoSnap == [bids |-> <<>>, asks |-> <<>>, marker |-> Null]

\* The BookState literal of watchPair (all clients; the markers a client
\* does not have stay Null).  installed and applied are history flags: a
\* snapshot has been installed into this BookState; a diff has been applied
\* to it (Binance) since the last snapshot was installed.
NewState ==
    [syncing |-> TRUE, bids |-> EmptyMap, asks |-> EmptyMap, buffer |-> <<>>,
     dirty |-> FALSE, interval |-> FALSE, syncTimer |-> FALSE,
     lastUpdateId |-> Null, lastEventU |-> Null, lastSeq |-> Null, lastTs |-> Null,
     installed |-> FALSE, applied |-> FALSE]

Watched == DOMAIN states

Msg(t, S) == [type |-> t, syms |-> S]

\* ------------------------------------------------------------ getOrderBook
\* Array.from(map.entries()).filter(q > 0).map(...).sort(...): the levels of
\* one side as a sequence, descending (bids) or ascending (asks) by price.
RECURSIVE SortedLevels(_, _, _)
SortedLevels(m, keys, desc) ==
    IF keys = {} THEN <<>>
    ELSE LET k == IF desc THEN CHOOSE x \in keys : \A y \in keys : y <= x
                  ELSE CHOOSE x \in keys : \A y \in keys : x <= y
         IN <<[price |-> k, quantity |-> m[k]]>> \o SortedLevels(m, keys \ {k}, desc)

\* The levels of a side without the `q > 0` filter.
LevelsUnfiltered(m, desc) == SortedLevels(m, DOMAIN m, desc)

Levels(m, desc) == SortedLevels(m, {k \in DOMAIN m : m[k] > 0}, desc)

\* A getOrderBook that does not look at the syncing flag.
GetOrderBookWhileSyncing(s) ==
    IF s \notin Watched THEN NoBook
    ELSE [present |-> TRUE, bids |-> Levels(states[s].bids, TRUE),
          asks |-> Levels(states[s].asks, FALSE)]

\* getOrderBook(pairKey) of the four clients; Binance also requires
\* lastUpdateId.  priceBucket is left unset, so bucketizeOrderBook returns the
\* book it is given.
GetOrderBook(s) ==
    IF s \notin Watched THEN NoBook
    ELSE LET state == states[s] IN
         IF state.syncing \/ (ex = "binance" /\ state.lastUpdateId = Null) THEN NoBook
         ELSE [present |-> TRUE, bids |-> Levels(state.bids, TRUE),
               asks |-> Levels(state.asks, FALSE)]

\* --------------------------------------------------------- buffer and sort
\* Array.prototype.sort with comparator key(x) - key(y): a stable sort.
RECURSIVE InsertBy(_, _, _)
InsertBy(sorted, x, k) ==
    IF sorted = <<>> THEN <<x>>
    ELSE IF Head(sorted)[k] <= x[k] THEN <<Head(sorted)>> \o InsertBy(Tail(sorted), x, k)
    ELSE <<x>> \o sorted

RECURSIVE SortBy(_, _)
SortBy(q, k) == IF q = <<>> THEN <<>> ELSE InsertBy(SortBy(SubSeq(q, 1, Len(q) - 1), k), q[Len(q)], k)

\* if (buffer.length >= cap) buffer.shift(); buffer.push(x)
\* (Bybit pushBuffered, OKX pushBuffered, Coinbase bufferUpdate).
\* A push without the capacity test.
PushUncapped(buffer, x) == Append(buffer, x)

PushCapped(buffer, x) ==
    Append(IF Len(buffer) >= opts.maxBufferedDiffs THEN Tail(buffer) ELSE buffer, x)

\* Math.floor(cap * 0.8) of BinanceBookClient.pushBuffered.
NearCapacity == (opts.maxBufferedDiffs * 8) \div 10

\* ------------------------------------------------- Binance snapshot + replay
\* for (const [price, quantity] of rows) side.set(price, Number(quantity))
RECURSIVE SetAll(_, _)
SetAll(side, rows) ==
    IF rows = <<>> THEN side ELSE SetAll(MapSet(side, Head(rows).p, Head(rows).q), Tail(rows))

\* The replay loop of BinanceBookClient.resync from index i on, the previous
\* applied final id being prevU.  kind: "done", "gap" (U # prevU + 1) or
\* "threw" (applyEvent threw).
RECURSIVE BinanceReplayFrom(_, _, _, _, _)
BinanceReplayFrom(bids, asks, buf, i, prevU) ==
    IF i > Len(buf) THEN [bids |-> bids, asks |-> asks, kind |-> "done", prevU |-> prevU]
    ELSE LET ev == buf[i] IN
         IF ev.u <= prevU THEN BinanceReplayFrom(bids, asks, buf, i + 1, prevU)
         ELSE IF ev.U # prevU + 1
              THEN [bids |-> bids, asks |-> asks, kind |-> "gap", prevU |-> prevU]
         ELSE LET r == BinanceApplyEvent(bids, asks, ev) IN
              IF r.threw
              THEN [bids |-> r.bids, asks |-> r.asks, kind |-> "threw", prevU |-> prevU]
              ELSE BinanceReplayFrom(r.bids, r.asks, buf, i + 1, ev.u)

\* while (i < buf.length && buf[i].u <= lastUpdateId) i++
RECURSIVE SkipStale(_, _, _)
SkipStale(buf, i, lastUpdateId) ==
    IF i <= Len(buf) /\ buf[i].u <= lastUpdateId THEN SkipStale(buf, i + 1, lastUpdateId) ELSE i

\* BinanceBookClient.resync after the snapshot arrived, on BookState st (lines
\* 893-934): [st, kind]; on "gap" the caller goes on to resync again.
BinanceResyncBody(st, snap) ==
    LET bids0 == SetAll(EmptyMap, snap.bids)
        asks0 == SetAll(EmptyMap, snap.asks)
        L == snap.marker
        buf == SortBy(st.buffer, "U")
        i == SkipStale(buf, 1, L)
        st0 == [st EXCEPT !.bids = bids0, !.asks = asks0, !.lastUpdateId = L,
                          !.buffer = buf, !.installed = TRUE, !.applied = FALSE]
    IN  IF i <= Len(buf) /\ buf[i].U <= L + 1 /\ buf[i].u >= L + 1
        THEN LET first == BinanceApplyEvent(bids0, asks0, buf[i]) IN
             IF first.threw
             THEN [st |-> [st0 EXCEPT !.bids = first.bids, !.asks = first.asks],
                   kind |-> "threw"]
             ELSE LET r == BinanceReplayFrom(first.bids, first.asks, buf, i + 1, buf[i].u) IN
                  IF r.kind = "done"
                  THEN [st |-> [st0 EXCEPT !.bids = r.bids, !.asks = r.asks,
                                           !.lastEventU = r.prevU, !.buffer = <<>>,
                                           !.syncing = FALSE, !.dirty = TRUE,
                                           !.applied = TRUE],
                        kind |-> "done"]
                  ELSE IF r.kind = "gap"
                  THEN [st |-> [st0 EXCEPT !.bids = r.bids, !.asks = r.asks,
                                           !.buffer = <<>>, !.applied = TRUE],
                        kind |-> "gap"]
                  ELSE [st |-> [st0 EXCEPT !.bids = r.bids, !.asks = r.asks,
                                           !.applied = TRUE],
                        kind |-> "threw"]
        ELSE [st |-> [st0 EXCEPT !.buffer = <<>>, !.syncing = FALSE, !.dirty = TRUE],
              kind |-> "done"]

\* --------------------------------------------------- Bybit snapshot + replay
\* The loop of BybitBookClient.processBuffer over the sorted buffer.
RECURSIVE BybitReplay(_, _, _, _)
BybitReplay(bids, asks, lastSeq, buf) ==
    IF buf = <<>> THEN [bids |-> bids, asks |-> asks, lastSeq |-> lastSeq, threw |-> FALSE]
    ELSE LET update == Head(buf) IN
         IF update.seq # Null /\ lastSeq # Null /\ update.seq <= lastSeq
         THEN BybitReplay(bids, asks, lastSeq, Tail(buf))
         ELSE LET r == BybitApplyUpdate(bids, asks, update) IN
              IF r.threw
              THEN [bids |-> r.bids, asks |-> r.asks, lastSeq |-> lastSeq, threw |-> TRUE]
              ELSE BybitReplay(r.bids, r.asks,
                               IF update.seq # Null THEN update.seq ELSE lastSeq, Tail(buf))

\* The comparator of BybitBookClient.processBuffer: by seq when both updates
\* carry one, else by ts.
BybitCompare(x, y) ==
    IF x.seq # Null /\ y.seq # Null THEN x.seq - y.seq ELSE x.ts - y.ts

\* state.buffer.sort(comparator): stable; x goes after every element that
\* does not compare greater than it.
RECURSIVE BybitInsert(_, _)
BybitInsert(sorted, x) ==
    IF sorted = <<>> THEN <<x>>
    ELSE IF BybitCompare(Head(sorted), x) <= 0
         THEN <<Head(sorted)>> \o BybitInsert(Tail(sorted), x)
    ELSE <<x>> \o sorted

RECURSIVE BybitSort(_)
BybitSort(q) ==
    IF q = <<>> THEN <<>> ELSE BybitInsert(BybitSort(SubSeq(q, 1, Len(q) - 1)), q[Len(q)])

\* BybitBookClient.processBuffer(state): [st, threw].
BybitProcessBuffer(st) ==
    IF st.buffer = <<>> THEN [st |-> st, threw |-> FALSE]
    ELSE LET buf == BybitSort(st.buffer)
             r == BybitReplay(st.bids, st.asks, st.lastSeq, buf)
             st1 == [st EXCEPT !.bids = r.bids, !.asks = r.asks, !.lastSeq = r.lastSeq,
                               !.buffer = buf]
         IN IF r.threw THEN [st |-> st1, threw |-> TRUE]
            ELSE [st |-> [st1 EXCEPT !.buffer = <<>>, !.dirty = TRUE], threw |-> FALSE]

\* Installing a snapshot (REST lines 451-464, stream lines 500-511): clear both
\* maps, upsert the rows, set lastSeq, replay, syncing = false, dirty = true.
\* keepSeq: the stream handler leaves lastSeq alone when the message has no seq.
BybitInstall(st, snap, keepSeq) ==
    LET rb == BybitUpsertOrderBookEntries(EmptyMap, snap.bids)
        ra == BybitUpsertOrderBookEntries(EmptyMap, snap.asks)
        m == Both(rb, EmptyMap, ra)
        st0 == [st EXCEPT !.bids = m.bids, !.asks = m.asks]
    IN  IF m.threw THEN [st |-> st0, threw |-> TRUE]
        ELSE LET st1 == [st0 EXCEPT !.lastSeq = IF snap.marker # Null THEN snap.marker
                                                 ELSE IF keepSeq THEN @ ELSE Null,
                                    !.installed = TRUE]
                 pb == BybitProcessBuffer(st1)
             IN IF pb.threw THEN pb
                ELSE [st |-> [pb.st EXCEPT !.syncing = FALSE, !.dirty = TRUE],
                      threw |-> FALSE]

\* ----------------------------------------------------- OKX snapshot + replay
\* The loop of OkxBookClient.processBuffer: apply, lastTs = max(lastTs || 0, ts).
RECURSIVE OkxReplay(_, _, _, _)
OkxReplay(bids, asks, lastTs, buf) ==
    IF buf = <<>> THEN [bids |-> bids, asks |-> asks, lastTs |-> lastTs, threw |-> FALSE]
    ELSE LET update == Head(buf)
             r == OkxApplyUpdate(bids, asks, update)
             cur == IF lastTs = Null THEN 0 ELSE lastTs
         IN IF r.threw
            THEN [bids |-> r.bids, asks |-> r.asks, lastTs |-> lastTs, threw |-> TRUE]
            ELSE OkxReplay(r.bids, r.asks, IF update.ts > cur THEN update.ts ELSE cur,
                           Tail(buf))

\* OkxBookClient.processBuffer(state): [st, threw].
OkxProcessBuffer(st) ==
    IF st.buffer = <<>> THEN [st |-> st, threw |-> FALSE]
    ELSE LET buf == SortBy(st.buffer, "ts")
             r == OkxReplay(st.bids, st.asks, st.lastTs, buf)
             st1 == [st EXCEPT !.bids = r.bids, !.asks = r.asks, !.lastTs = r.lastTs,
                               !.buffer = buf]
         IN IF r.threw THEN [st |-> st1, threw |-> TRUE]
            ELSE [st |-> [st1 EXCEPT !.buffer = <<>>, !.dirty = TRUE], threw |-> FALSE]

\* Installing a snapshot (REST lines 408-419, stream lines 463-475).
OkxInstall(st, snap) ==
    LET rb == OkxUpsertOrderBookEntries(EmptyMap, snap.bids)
        ra == OkxUpsertOrderBookEntries(EmptyMap, snap.asks)
        m == Both(rb, EmptyMap, ra)
        st0 == [st EXCEPT !.bids = m.bids, !.asks = m.asks]
    IN  IF m.threw THEN [st |-> st0, threw |-> TRUE]
        ELSE LET st1 == [st0 EXCEPT !.lastTs = snap.marker, !.installed = TRUE]
                 pb == OkxProcessBuffer(st1)
             IN IF pb.threw THEN pb
                ELSE [st |-> [pb.st EXCEPT !.syncing = FALSE, !.dirty = TRUE],
                      threw |-> FALSE]

\* ------------------------------------------------ Coinbase snapshot + replay
\* The loop of CoinbaseBookClient.processBuffer: arrival order, no sort.
RECURSIVE CoinbaseReplay(_, _, _)
CoinbaseReplay(bids, asks, buf) ==
    IF buf = <<>> THEN [bids |-> bids, asks |-> asks, threw |-> FALSE]
    ELSE LET r == CoinbaseApplyUpdate(bids, asks, Head(buf).changes) IN
         IF r.threw THEN r ELSE CoinbaseReplay(r.bids, r.asks, Tail(buf))

\* CoinbaseBookClient.processBuffer(state): [st, threw].
CoinbaseProcessBuffer(st) ==
    IF st.buffer = <<>> THEN [st |-> st, threw |-> FALSE]
    ELSE LET r == CoinbaseReplay(st.bids, st.asks, st.buffer)
             st1 == [st EXCEPT !.bids = r.bids, !.asks = r.asks]
         IN IF r.threw THEN [st |-> st1, threw |-> TRUE]
            ELSE [st |-> [st1 EXCEPT !.buffer = <<>>, !.dirty = TRUE], threw |-> FALSE]

\* Installing a snapshot (REST lines 188-203, stream lines 263-273); the
\* stream handler also clears the resync timer afterwards (lines 275-278).
CoinbaseInstall(st, snap) ==
    LET rb == CoinbaseUpsertRows(EmptyMap, snap.bids)
        ra == CoinbaseUpsertRows(EmptyMap, snap.asks)
        m == Both(rb, EmptyMap, ra)
        st0 == [st EXCEPT !.bids = m.bids, !.asks = m.asks]
    IN  IF m.threw THEN [st |-> st0, threw |-> TRUE]
        ELSE LET st1 == [st0 EXCEPT !.installed = TRUE]
                 pb == CoinbaseProcessBuffer(st1)
             IN IF pb.threw THEN pb
                ELSE [st |-> [pb.st EXCEPT !.syncing = FALSE, !.dirty = TRUE],
                      threw |-> FALSE]

\* ------------------------------------------------------- the client object
\* The client as one record, so that a handler that calls other methods is
\* the composition of their effects; out collects the messages sent.
Cur ==
    [ws |-> ws, wsState |-> wsState, desired |-> desired, subscribed |-> subscribed,
     states |-> states, listeners |-> listeners, inflight |-> inflight,
     zombies |-> zombies, resub |-> resub, orphans |-> orphans,
     connWait |-> connWait, rc |-> rc, out |-> <<>>]

Has(c, s) == s \in DOMAIN c.states
WithState(c, s, st) ==
    [c EXCEPT !.states = [x \in (DOMAIN c.states) \cup {s} |->
                             IF x = s THEN st ELSE c.states[x]]]

\* sendWsMessage(ws, msg): if (!ws || ws.readyState !== ws.OPEN) return.
SendWsMessage(c, m) == IF c.ws = "open" THEN [c EXCEPT !.out = Append(@, m)] ELSE c

\* resync(s) up to its first await, common to the four clients: look the
\* BookState up, syncing = true (Coinbase also clears the resync timer), then
\* the snapshot request is in flight.
Resync(c, s) ==
    IF ~Has(c, s) THEN c
    ELSE [c EXCEPT !.states[s].syncing = TRUE,
                   !.states[s].syncTimer = IF ex = "coinbase" THEN FALSE ELSE @,
                   !.inflight[s] = @ + 1]

RECURSIVE ResyncAll(_, _)
ResyncAll(c, S) ==
    IF S = {} THEN c
    ELSE LET s == CHOOSE x \in S : TRUE IN ResyncAll(Resync(c, s), S \ {s})

\* `for (const [product_id] of this.desiredProducts)`: desiredProducts is a
\* Set of strings, so the pattern [product_id] takes each id's first character.
FirstChar(s) == IF s = "BTCUSDT" THEN "B" ELSE s

\* connect(): returns at once when a socket exists or the state is not
\* "disconnected"; else opens a socket and suspends `waiter` until onopen.
Connect(c, waiter) ==
    IF c.ws # "none" \/ c.wsState \in {"connecting", "connected"}
    THEN [c |-> c, resolved |-> TRUE]
    ELSE [c |-> [c EXCEPT !.ws = "connecting", !.wsState = "connecting",
                          !.subscribed = {}, !.connWait = waiter],
          resolved |-> FALSE]

\* watchPair after `await this.connect()` (Binance 1109-1126, Bybit 657-675,
\* OKX 600-620, Coinbase 419-442).  `states.get(pair)!` of a pair unwatched
\* in the meantime is undefined and the next property access throws.
WatchAfterConnect(c, s) ==
    LET sub == c.ws # "none" /\ c.wsState = "connected" /\ s \notin c.subscribed
        c1 == IF sub
              THEN [SendWsMessage(c, Msg("subscribe", {s})) EXCEPT !.subscribed = @ \cup {s}]
              ELSE c
    IN  IF ~Has(c1, s) THEN c1
        ELSE IF ex = "coinbase"
        THEN [c1 EXCEPT !.states[s].syncing = IF sub THEN TRUE ELSE @,
                        !.states[s].syncTimer = IF sub THEN TRUE ELSE @,
                        !.states[s].interval = TRUE]
        ELSE Resync([c1 EXCEPT !.states[s].interval = TRUE], s)

\* reconnect() after `await this.connect()`: the resync loop.
ReconnectAfterConnect(c) ==
    LET c0 == [c EXCEPT !.rc = "idle"] IN
    IF ex = "binance" THEN ResyncAll(c0, DOMAIN c0.states)
    ELSE IF ex = "coinbase" THEN ResyncAll(c0, {FirstChar(s) : s \in c0.desired})
    ELSE ResyncAll(c0, c0.desired)

\* What runs when the promise of connect() resolves.
ResumeWaiter(c) ==
    LET w == c.connWait
        c0 == [c EXCEPT !.connWait = NoWait]
    IN  IF w.kind = "watch" THEN WatchAfterConnect(c0, w.sym)
        ELSE IF w.kind = "reconnect" THEN ReconnectAfterConnect(c0)
        ELSE c0

\* Coinbase onopen, per desired product that has a BookState: syncing = true,
\* restart the resync timer.
RECURSIVE ArmSyncTimers(_, _)
ArmSyncTimers(c, S) ==
    IF S = {} THEN c
    ELSE LET s == CHOOSE x \in S : TRUE
             c1 == IF Has(c, s)
                   THEN [c EXCEPT !.states[s].syncing = TRUE, !.states[s].syncTimer = TRUE]
                   ELSE c
         IN ArmSyncTimers(c1, S \ {s})

\* ws.onopen.
OnOpenHandler(c) ==
    LET c0 == [c EXCEPT !.ws = "open", !.wsState = "connected"]
        c1 == IF c0.desired # {}
              THEN [SendWsMessage(c0, Msg("subscribe", c0.desired))
                       EXCEPT !.subscribed = @ \cup c0.desired]
              ELSE c0
        c2 == IF ex = "coinbase" THEN ArmSyncTimers(c1, c1.desired) ELSE c1
    IN  ResumeWaiter(c2)

\* The markers a snapshot can carry (lastUpdateId, seq, ts; Coinbase has none).
SnapMarkers == IF ex = "coinbase" THEN {Null} ELSE 0 .. (MaxId - 1)

\* How a resync ends on a BookState that is out of this.states, by the buffer
\* the object holds and the marker of the snapshot: "gap" (Binance starts
\* over), "threw" (the replay throws and leaves the buffer), else "done".
\* Nothing else of the detached object can reach the client again; the rows
\* of the snapshot are well-formed and do not decide the outcome.
DetachedKind(buffer, marker) ==
    LET st == [NewState EXCEPT !.buffer = buffer]
        snap == [bids |-> <<>>, asks |-> <<>>, marker |-> marker]
    IN  IF ex = "binance" THEN BinanceResyncBody(st, snap).kind
        ELSE IF ex = "coinbase"
        THEN (IF CoinbaseInstall(st, snap).threw THEN "threw" ELSE "done")
        ELSE "done"

\* The BookState of s leaves this.states (unwatchPair, disconnect): its
\* timers are cleared with it; resyncs and resubscribe callbacks that
\* captured it keep the detached object.
Detach(c, s) ==
    IF ~Has(c, s) THEN c
    ELSE LET st == c.states[s]
             held == [kind |-> [m \in SnapMarkers |-> DetachedKind(st.buffer, m)],
                      n |-> c.inflight[s]]
         IN [c EXCEPT !.states = [x \in (DOMAIN c.states) \ {s} |-> c.states[x]],
                      !.zombies[s] = IF c.inflight[s] > 0 THEN Append(@, held) ELSE @,
                      !.inflight[s] = 0,
                      !.resub[s] = [att |-> 0, det |-> @.det + @.att]]

RECURSIVE DetachAll(_, _)
DetachAll(c, S) ==
    IF S = {} THEN c
    ELSE LET s == CHOOSE x \in S : TRUE IN DetachAll(Detach(c, s), S \ {s})

\* An unwatchPair that unsubscribes whether or not s was wanted.
UnwatchPairAlwaysUnsubscribes(c, s) ==
    LET c1 == IF c.ws # "none" /\ c.wsState = "connected"
              THEN [SendWsMessage([c EXCEPT !.desired = @ \ {s}], Msg("unsubscribe", {s}))
                       EXCEPT !.subscribed = @ \ {s}]
              ELSE c
    IN  Detach(c1, s)

\* unwatchPair(s): unsubscribes when connected and s was in the desired set
\* (`desired.delete(s)` returned true), then removes the BookState.
UnwatchPair(c, s) ==
    LET c1 == IF c.ws # "none" /\ c.wsState = "connected" /\ s \in c.desired
              THEN [SendWsMessage([c EXCEPT !.desired = @ \ {s}], Msg("unsubscribe", {s}))
                       EXCEPT !.subscribed = @ \ {s}]
              ELSE c
    IN  Detach(c1, s)

\* disconnect().  Coinbase keeps desiredProducts; the others clear the
\* desired set too.  The close event of a socket closed here is delivered
\* before the next connect(): its handler then finds wsState and the
\* subscribed set as disconnect() left them, and code 1000 starts no reconnect.
Disconnect(c) ==
    LET c1 == [c EXCEPT !.wsState = "disconnected", !.ws = "none",
                        !.subscribed = {},
                        !.desired = IF ex = "coinbase" THEN @ ELSE {},
                        !.listeners = {}]
    IN  DetachAll(c1, DOMAIN c1.states)

\* ------------------------------------------------- resync after its await
\* Coinbase resync lines 212-238: the WebSocket fallback.  attached: the
\* BookState the resync captured is still the one in this.states.
CoinbaseFallback(c, s, attached) ==
    IF c.ws = "none" THEN c
    ELSE [SendWsMessage(c, Msg("unsubscribe", {s}))
             EXCEPT !.subscribed = @ \ {s},
                    !.resub[s] = IF attached THEN [@ EXCEPT !.att = @ + 1]
                                 ELSE [@ EXCEPT !.det = @ + 1]]

\* A resync of s resumes with the outcome of its snapshot request, its
\* BookState still being the one in this.states.
\* outcome.kind: "ok" (snapshot outcome.snap), "nodata" (Bybit `!res`, OKX
\* `!first`), "fail" (withHttpRetry threw, or the API error code).
ResyncResume(c, s, outcome) ==
    LET c0 == [c EXCEPT !.inflight[s] = @ - 1]
        st == c.states[s]
    IN  IF ex = "binance"
        THEN IF outcome.kind = "ok"
             THEN LET r == BinanceResyncBody(st, outcome.snap)
                      c1 == WithState(c0, s, r.st)
                  IN IF r.kind = "gap" THEN Resync(c1, s) ELSE c1
             ELSE c0
        ELSE IF ex = "bybit"
        THEN IF outcome.kind = "ok"
             THEN LET r == BybitInstall(st, outcome.snap, FALSE) IN
                  WithState(c0, s, [r.st EXCEPT !.syncing = FALSE])
             ELSE WithState(c0, s, [st EXCEPT !.syncing = FALSE])
        ELSE IF ex = "okx"
        THEN IF outcome.kind = "ok"
             THEN LET r == OkxInstall(st, outcome.snap) IN
                  WithState(c0, s, [r.st EXCEPT !.syncing = FALSE])
             ELSE WithState(c0, s, [st EXCEPT !.syncing = FALSE])
        ELSE IF outcome.kind = "ok"
             THEN LET r == CoinbaseInstall(st, outcome.snap)
                      c1 == WithState(c0, s, r.st)
                  IN IF r.threw THEN CoinbaseFallback(c1, s, TRUE) ELSE c1
             ELSE CoinbaseFallback(c0, s, TRUE)

\* The same for a resync whose BookState was removed from this.states while
\* it waited (zombie i of s).  What it writes into the detached object is
\* out of the client's reach; what reaches the client is the recursion of
\* Binance (resync(pairKey) looks the key up again) and the Coinbase fallback.
\* A resync that ends "done" or "gap" empties the buffer of the object.
ZombieResume(c, s, i, outcome) ==
    LET z == c.zombies[s][i]
        kind == IF outcome.kind = "ok" THEN z.kind[outcome.snap.marker] ELSE "fail"
        z1 == [kind |-> IF kind \in {"done", "gap"}
                        THEN [m \in SnapMarkers |-> "done"] ELSE z.kind,
               n |-> z.n - 1]
        rest == [k \in 1 .. Len(c.zombies[s]) - 1 |->
                    IF k < i THEN c.zombies[s][k] ELSE c.zombies[s][k + 1]]
        c0 == [c EXCEPT !.zombies[s] = IF z1.n = 0 THEN rest ELSE [@ EXCEPT ![i] = z1]]
    IN  IF ex = "binance" /\ kind = "gap" THEN Resync(c0, s)
        ELSE IF ex = "coinbase" /\ kind \in {"threw", "fail"}
        THEN CoinbaseFallback(c0, s, FALSE)
        ELSE c0

\* ------------------------------------------------------- Coinbase timers
\* The resubscribe-delay callback (lines 223-237).  `state` is the BookState
\* the resync captured: a timer stored into a detached one, or over a handle
\* that was not cleared, is a timer nothing can cancel any more.
ResubscribeCallback(c, s, attached) ==
    LET c0 == [c EXCEPT !.resub[s] = IF attached THEN [@ EXCEPT !.att = @ - 1]
                                     ELSE [@ EXCEPT !.det = @ - 1]]
    IN  IF c0.ws = "none" THEN c0
        ELSE LET c1 == [SendWsMessage(c0, Msg("subscribe", {s}))
                           EXCEPT !.subscribed = @ \cup {s}]
             IN IF attached /\ ~c1.states[s].syncTimer
                THEN [c1 EXCEPT !.states[s].syncTimer = TRUE]
                ELSE [c1 EXCEPT !.orphans[s] = @ + 1]

\* The resync timer held by the BookState of s fires: () => this.resync(s).
SyncTimerCallback(c, s) == Resync([c EXCEPT !.states[s].syncTimer = FALSE], s)

\* A resync timer no BookState holds fires.
OrphanTimerCallback(c, s) == Resync([c EXCEPT !.orphans[s] = @ - 1], s)

\* ------------------------------------------------------ message handlers
\* BinanceBookClient.pushBuffered(state, evt, pairKey).
BinancePushBuffered(c, s, evt) ==
    LET st == c.states[s]
        buf == IF Len(st.buffer) >= opts.maxBufferedDiffs THEN Tail(st.buffer) ELSE st.buffer
        pushed == WithState(c, s, [st EXCEPT !.buffer = Append(buf, evt)])
    IN  IF st.syncing THEN pushed
        ELSE IF Len(buf) >= NearCapacity
        THEN Resync([pushed EXCEPT !.states[s].syncing = TRUE], s)
        ELSE pushed

\* BinanceBookClient.onMessage for a parsed depthUpdate evt of symbol s.
\* onMessage without the two continuity tests: whatever is not already covered
\* is applied.
BinanceOnMessageAnyMarker(c, s, evt) ==
    IF ~Has(c, s) THEN c
    ELSE LET st == c.states[s] IN
         IF st.syncing \/ st.lastUpdateId = Null THEN BinancePushBuffered(c, s, evt)
         ELSE IF st.lastEventU # Null /\ evt.u <= st.lastEventU THEN c
         ELSE LET r == BinanceApplyEvent(st.bids, st.asks, evt) IN
              WithState(c, s, [st EXCEPT !.bids = r.bids, !.asks = r.asks,
                                         !.lastEventU = evt.u, !.dirty = TRUE,
                                         !.applied = TRUE])

BinanceOnMessage(c, s, evt) ==
    IF ~Has(c, s) THEN c
    ELSE LET st == c.states[s] IN
         IF st.syncing \/ st.lastUpdateId = Null THEN BinancePushBuffered(c, s, evt)
         ELSE IF st.lastEventU # Null /\ evt.u <= st.lastEventU THEN c
         ELSE IF (st.lastEventU = Null
                     /\ ~(evt.U <= st.lastUpdateId + 1 /\ evt.u >= st.lastUpdateId + 1))
                 \/ (st.lastEventU # Null /\ evt.U # st.lastEventU + 1)
         THEN Resync([BinancePushBuffered(c, s, evt) EXCEPT !.states[s].syncing = TRUE], s)
         ELSE LET r == BinanceApplyEvent(st.bids, st.asks, evt) IN
              IF r.threw
              THEN WithState(c, s, [st EXCEPT !.bids = r.bids, !.asks = r.asks])
              ELSE WithState(c, s, [st EXCEPT !.bids = r.bids, !.asks = r.asks,
                                              !.lastEventU = evt.u, !.dirty = TRUE,
                                              !.applied = TRUE])

\* A delta handler without the buffering branch: applies whatever arrives.
BybitOnDeltaUnbuffered(c, s, data) ==
    IF ~Has(c, s) THEN c
    ELSE LET st == c.states[s]
             r == BybitApplyUpdate(st.bids, st.asks, data)
         IN WithState(c, s, [st EXCEPT !.bids = r.bids, !.asks = r.asks, !.dirty = TRUE])

\* BybitBookClient.onMessage, msg.type === 'delta'.
BybitOnDelta(c, s, data) ==
    IF ~Has(c, s) THEN c
    ELSE LET st == c.states[s] IN
         IF data.seq # Null /\ st.lastSeq # Null /\ data.seq <= st.lastSeq THEN c
         ELSE IF st.syncing
         THEN WithState(c, s, [st EXCEPT !.buffer = PushCapped(@, data)])
         ELSE LET r == BybitApplyUpdate(st.bids, st.asks, data) IN
              IF r.threw
              THEN WithState(c, s, [st EXCEPT !.bids = r.bids, !.asks = r.asks])
              ELSE WithState(c, s, [st EXCEPT !.bids = r.bids, !.asks = r.asks,
                                              !.lastSeq = IF data.seq # Null THEN data.seq ELSE @,
                                              !.dirty = TRUE])

\* BybitBookClient.onMessage, msg.type === 'snapshot'.
BybitOnSnapshot(c, s, snap) ==
    IF ~Has(c, s) THEN c ELSE WithState(c, s, BybitInstall(c.states[s], snap, TRUE).st)

\* OkxBookClient.onMessage, msg.action === 'update'.
OkxOnUpdate(c, s, datum) ==
    IF ~Has(c, s) THEN c
    ELSE LET st == c.states[s] IN
         IF datum.ts <= (IF st.lastTs = Null THEN 0 ELSE st.lastTs) THEN c
         ELSE IF st.syncing
         THEN WithState(c, s, [st EXCEPT !.buffer = PushCapped(@, datum)])
         ELSE LET r == OkxApplyUpdate(st.bids, st.asks, datum) IN
              IF r.threw
              THEN WithState(c, s, [st EXCEPT !.bids = r.bids, !.asks = r.asks])
              ELSE WithState(c, s, [st EXCEPT !.bids = r.bids, !.asks = r.asks,
                                              !.lastTs = datum.ts, !.dirty = TRUE])

\* OkxBookClient.onMessage, msg.action === 'snapshot'.
OkxOnSnapshot(c, s, snap) ==
    IF ~Has(c, s) THEN c ELSE WithState(c, s, OkxInstall(c.states[s], snap).st)

\* CoinbaseBookClient.onMessage, type === 'l2update'.
CoinbaseOnUpdate(c, s, update) ==
    IF ~Has(c, s) THEN c
    ELSE LET st == c.states[s] IN
         IF st.syncing
         THEN WithState(c, s, [st EXCEPT !.buffer = PushCapped(@, update)])
         ELSE LET r == CoinbaseApplyUpdate(st.bids, st.asks, update.changes) IN
              IF r.threw
              THEN WithState(c, s, [st EXCEPT !.bids = r.bids, !.asks = r.asks])
              ELSE WithState(c, s, [st EXCEPT !.bids = r.bids, !.asks = r.asks,
                                              !.dirty = TRUE])

\* CoinbaseBookClient.onMessage, type === 'snapshot'.
CoinbaseOnSnapshot(c, s, snap) ==
    IF ~Has(c, s) THEN c
    ELSE LET r == CoinbaseInstall(c.states[s], snap) IN
         WithState(c, s, IF r.threw THEN r.st ELSE [r.st EXCEPT !.syncTimer = FALSE])

\* The two maps after the client at hand applies diff d to them.
ApplyDiff(bids, asks, d) ==
    IF ex = "binance" THEN BinanceApplyEvent(bids, asks, d)
    ELSE IF ex = "bybit" THEN BybitApplyUpdate(bids, asks, d)
    ELSE IF ex = "okx" THEN OkxApplyUpdate(bids, asks, d)
    ELSE CoinbaseApplyUpdate(bids, asks, d.changes)

\* A diff / a stream snapshot through the handler of the client at hand.
OnDiff(c, s, d) ==
    IF ex = "binance" THEN BinanceOnMessage(c, s, d)
    ELSE IF ex = "bybit" THEN BybitOnDelta(c, s, d)
    ELSE IF ex = "okx" THEN OkxOnUpdate(c, s, d)
    ELSE CoinbaseOnUpdate(c, s, d)

OnStreamSnapshot(c, s, snap) ==
    IF ex = "bybit" THEN BybitOnSnapshot(c, s, snap)
    ELSE IF ex = "okx" THEN OkxOnSnapshot(c, s, snap)
    ELSE CoinbaseOnSnapshot(c, s, snap)

\* ----------------------------------------------------- what the venue sends
\* Rows of one diff: one bid level set or removed, or a diff whose asks
\* cannot be iterated.
Payloads ==
    {[b |-> <<Row(p, q)>>, a |-> <<>>] : p \in Prices, q \in {0, MaxQty}}
        \cup {[b |-> <<Row(1, MaxQty)>>, a |-> <<BadRow>>]}

Changes(pl) ==
    [i \in 1 .. Len(pl.b) |-> [side |-> "buy", row |-> pl.b[i]]]
        \o [i \in 1 .. Len(pl.a) |-> [side |-> "sell", row |-> pl.a[i]]]

Diffs ==
    IF ex = "binance"
    THEN {[U |-> r[1], u |-> r[2], b |-> pl.b, a |-> pl.a] :
             pl \in Payloads, r \in {x \in Ids \X Ids : x[1] = x[2]}}
    ELSE IF ex = "bybit"
    THEN {[seq |-> i, ts |-> 0, b |-> pl.b, a |-> pl.a] : pl \in Payloads, i \in Ids}
    ELSE IF ex = "okx"
    THEN {[ts |-> i, b |-> pl.b, a |-> pl.a] : pl \in Payloads, i \in Ids}
    ELSE {[changes |-> Changes(pl)] : pl \in Payloads}

SnapBooks ==
    {[bids |-> <<>>, asks |-> <<>>],
     [bids |-> <<Row(1, MaxQty)>>, asks |-> <<Row(MaxPrice, MaxQty)>>]}

Snapshots == {[bids |-> bk.bids, asks |-> bk.asks, marker |-> m] :
                 bk \in SnapBooks, m \in SnapMarkers}

Outcomes ==
    {[kind |-> "ok", snap |-> sn] : sn \in Snapshots}
        \cup {[kind |-> "fail", snap |-> NoSnap]}
        \cup (IF ex \in {"bybit", "okx"} THEN {[kind |-> "nodata", snap |-> NoSnap]} ELSE {})

\* ---------------------------------------------------------------- actions
\* The counters stay within the bounds of the model.  With a buffer of more
\* than MaxBuffered diffs one more resync may be in flight per symbol.
InBounds(c) ==
    \A s \in Symbols :
        /\ c.inflight[s] <= IF opts.maxBufferedDiffs > MaxBuffered
                            THEN MaxInflight + 1 ELSE MaxInflight
        /\ Len(c.zombies[s]) <= MaxZombies
        /\ c.orphans[s] <= MaxOrphans
        /\ c.resub[s].att <= MaxInflight
        /\ c.resub[s].det <= MaxInflight

\* A handler ran and left the client as c.
CommitClient(c) ==
    /\ InBounds(c)
    /\ ws' = c.ws
    /\ wsState' = c.wsState
    /\ desired' = c.desired
    /\ subscribed' = c.subscribed
    /\ states' = c.states
    /\ listeners' = c.listeners
    /\ inflight' = c.inflight
    /\ zombies' = c.zombies
    /\ resub' = c.resub
    /\ orphans' = c.orphans
    /\ connWait' = c.connWait
    /\ rc' = c.rc
    /\ sent' = c.out
    /\ ex' = ex
    /\ opts' = opts

Commit(c) ==
    /\ CommitClient(c)
    /\ UNCHANGED <<applyVars, replayVars, pureVars>>

\* No book is delivered to the listeners: the hook's onLiveBook callback does
\* not run, and the step runs no cost calculation.
Quiet ==
    /\ emitted' = NoBook
    /\ currentPair' = currentPair
    /\ liveReady' = liveReady
    /\ costOn' = "none"
    /\ hook' = hook

\* The same for a step in which the hook unwatches or disconnects: the
\* adapter forgets its pair (unwatchLivePair) and the hook sets
\* liveReadyRef.current[id] = false alongside (useExchangeEngine 329, 482,
\* 500, 685).
QuietNotReady ==
    /\ emitted' = NoBook
    /\ currentPair' = ""
    /\ liveReady' = FALSE
    /\ costOn' = "none"
    /\ hook' = hook

\* The client after construction.
\* The fields the constructor sets, whatever the options passed to it.
ClientNew ==
    /\ ws = "none"
    /\ wsState = "disconnected"
    /\ desired = {}
    /\ subscribed = {}
    /\ states = [x \in {} |-> NewState]
    /\ listeners = {}
    /\ inflight = [s \in Symbols |-> 0]
    /\ zombies = [s \in Symbols |-> <<>>]
    /\ resub = [s \in Symbols |-> [att |-> 0, det |-> 0]]
    /\ orphans = [s \in Symbols |-> 0]
    /\ connWait = NoWait
    /\ rc = "idle"
    /\ sent = <<>>
    /\ emitted = NoBook

\* The refs and state of useExchangeEngine for one exchange id, as the hook
\* creates them: nothing selected, no timer, an empty operation chain.
\* timeouts holds the handles window.setTimeout has pending, calcs the
\* number of adapter.calculateCost calls not yet settled.
NoTimer == [null |-> TRUE]

HookNew ==
    [selected |-> FALSE, paused |-> FALSE, tradingPair |-> "BTCUSDT",
     subs |-> FALSE, opSeq |-> 0, pairKeyByEx |-> "", liveReady |-> FALSE,
     recomputeTimers |-> NoTimer, timeouts |-> {},
     watchMutex |-> <<>>, calcs |-> 0,
     costBreakdownMap |-> "undefined", errors |-> "null",
     owed |-> FALSE, cleared |-> FALSE]

ClientInit ==
    /\ opts = [maxBufferedDiffs |-> MaxBuffered]
    /\ ClientNew

Init ==
    /\ ex \in Exchanges
    /\ ClientInit
    /\ book = NoMaps
    /\ last = NoMaps
    /\ snapshot = NoSnap
    /\ buffered = <<>>
    /\ received = <<>>
    /\ arg = Idle
    /\ ret = Idle
    /\ fees = Idle
    /\ seen = <<>>
    /\ currentPair = ""
    /\ liveReady = FALSE
    /\ costOn = "none"
    /\ hook = HookNew
    /\ ConverterNew

\* adapter.watchLivePair(s) for a pair that is not the current one, into
\* watchPair(s) of the book client up to `await this.connect()`, and beyond it
\* when connect() returns at once.
WatchPair(s) ==
    LET c0 == [(IF Has(Cur, s) THEN Cur ELSE WithState(Cur, s, NewState))
                  EXCEPT !.desired = @ \cup {s}]
        k == Connect(c0, [kind |-> "watch", sym |-> s])
    IN  /\ currentPair # s
        /\ Commit(IF k.resolved THEN WatchAfterConnect(k.c, s) ELSE k.c)
        /\ emitted' = NoBook
        /\ currentPair' = s
        /\ liveReady' = liveReady
        /\ costOn' = "none"
        /\ hook' = hook

\* adapter.unwatchLivePair() into unwatchPair(s) of the book client.
Unwatch(s) ==
    /\ currentPair = s
    /\ Commit(UnwatchPair(Cur, s))
    /\ QuietNotReady

\* adapter.disconnect(): unwatchLivePair(), then disconnect() of the book
\* client, on a socket that is not mid-handshake.
AdapterDisconnect ==
    /\ ws # "connecting"
    /\ Commit(Disconnect(IF currentPair # "" THEN UnwatchPair(Cur, currentPair) ELSE Cur))
    /\ QuietNotReady

\* onUpdate(cb).
OnUpdate ==
    /\ listeners = {}
    /\ Commit([Cur EXCEPT !.listeners = {"cb"}])
    /\ Quiet

\* ws.onopen of the socket at hand.
OnOpen ==
    /\ ws = "connecting"
    /\ Commit(OnOpenHandler(Cur))
    /\ Quiet

\* ws.onclose of the socket at hand, up to its `await sleep(...)`.  code 1000
\* is a normal closure, anything else starts the reconnect chain.  The call
\* suspended in connect() is never resumed (Binance rejects it).
OnClose(code) ==
    /\ ws \in {"connecting", "open"}
    /\ code # 1000 => rc \in {"idle", "connWait"}
    /\ Commit([Cur EXCEPT !.ws = "closed", !.wsState = "disconnected",
                          !.subscribed = {}, !.connWait = NoWait,
                          !.rc = IF code # 1000 THEN "closeSleep"
                                 ELSE IF @ = "connWait" THEN "idle" ELSE @])
    /\ Quiet

\* The jittered sleep of onclose is over: reconnect() runs disconnect() and
\* sleeps again.  (A socket mid-handshake is not abandoned: one socket at a
\* time is tracked.)
ReconnectStart ==
    /\ rc = "closeSleep"
    /\ ws # "connecting"
    /\ Commit([Disconnect(Cur) EXCEPT !.rc = "reconnSleep"])
    /\ Quiet

\* reconnect() after sleep(1000): connect(), then the resync loop.
ReconnectConnect ==
    /\ rc = "reconnSleep"
    /\ LET k == Connect(Cur, [kind |-> "reconnect", sym |-> ""]) IN
       IF k.resolved
       THEN Commit(ReconnectAfterConnect(k.c))
       ELSE Commit([k.c EXCEPT !.rc = "connWait"])
    /\ Quiet

\* A resync of s gets the outcome of its snapshot request.
ResyncDone(s, outcome) ==
    /\ inflight[s] > 0
    /\ Commit(ResyncResume(Cur, s, outcome))
    /\ Quiet

\* The same for a resync whose BookState is no longer in this.states.
ZombieDone(s, i, outcome) ==
    /\ i \in 1 .. Len(zombies[s])
    /\ Commit(ZombieResume(Cur, s, i, outcome))
    /\ Quiet

\* ws.onmessage with a diff for s.
DiffMessage(s, d) ==
    /\ ws = "open"
    /\ Commit(OnDiff(Cur, s, d))
    /\ Quiet

\* ws.onmessage with a stream snapshot for s (Bybit, OKX, Coinbase).
SnapshotMessage(s, snap) ==
    /\ ws = "open"
    /\ ex # "binance"
    /\ Commit(OnStreamSnapshot(Cur, s, snap))
    /\ Quiet

\* ws.onmessage with a message JSON.parse rejects, or one without the fields
\* the handler looks for first: the handler returns (or catches) at once.
GarbageMessage ==
    /\ ws = "open"
    /\ Commit(Cur)
    /\ Quiet

\* The interval callback that never clears the flag.
EmitIntervalKeepsDirty(c, s) == c

\* The callback of the emit interval of s (Binance 1116-1124, and the same
\* in the other clients): if (!state.dirty) return; state.dirty = false.
EmitIntervalCallback(c, s) ==
    IF ~c.states[s].dirty THEN c ELSE [c EXCEPT !.states[s].dirty = FALSE]

\* One tick of the emit interval of s: after the callback cleared the flag,
\* the book, if getOrderBook has one, goes to the listeners.
EmitTick(s) ==
    /\ s \in Watched
    /\ states[s].interval
    /\ Commit(EmitIntervalCallback(Cur, s))
    /\ emitted' = IF states[s].dirty /\ listeners # {} THEN GetOrderBook(s) ELSE NoBook
    /\ currentPair' = currentPair
    /\ liveReady' = (liveReady \/ emitted'.present)
    /\ costOn' = "none"
    /\ hook' = hook

\* Coinbase: the resubscribe delay of a fallback is over.
ResubscribeFire(s, attached) ==
    /\ IF attached THEN resub[s].att > 0 ELSE resub[s].det > 0
    /\ Commit(ResubscribeCallback(Cur, s, attached))
    /\ Quiet

\* Coinbase: the resync timer of the BookState of s fires.
SyncTimerFire(s) ==
    /\ s \in Watched
    /\ states[s].syncTimer
    /\ Commit(SyncTimerCallback(Cur, s))
    /\ Quiet

\* Coinbase: a resync timer no BookState holds fires.
OrphanTimerFire(s) ==
    /\ orphans[s] > 0
    /\ Commit(OrphanTimerCallback(Cur, s))
    /\ Quiet

\* calculateCost(id) of the hook, gated on liveReadyRef, into
\* adapter.calculateCost: watchLivePair returns at once (the pair is the
\* current one), then `bookWs.getOrderBook(symbol)` and, when that yields no
\* book (Bybit: or a book with an empty side), fetchOrderBook over REST.  The
\* cost calculator runs on the book unless the REST request failed or a side
\* of the book is empty ("threw").
CalculateCost(s) ==
    LET live == GetOrderBook(s)
        sided == live.present /\ live.bids # <<>> /\ live.asks # <<>>
        useLive == IF ex = "bybit" THEN sided ELSE live.present
    IN  /\ liveReady
        /\ Commit(Cur)
        /\ currentPair = s
        /\ emitted' = NoBook
        /\ currentPair' = currentPair
        /\ liveReady' = liveReady
        /\ costOn' \in IF useLive THEN {IF sided THEN "live" ELSE "threw"}
                        ELSE {"rest", "threw"}
        /\ hook' = hook

Next ==
    \/ \E s \in Symbols : WatchPair(s)
    \/ \E s \in Symbols : Unwatch(s)
    \/ AdapterDisconnect
    \/ OnUpdate
    \/ OnOpen
    \/ \E code \in {1000, 1006} : OnClose(code)
    \/ ReconnectStart
    \/ ReconnectConnect
    \/ \E s \in Symbols : \E o \in Outcomes : ResyncDone(s, o)
    \/ \E s \in Symbols : \E i \in 1 .. MaxZombies : \E o \in Outcomes : ZombieDone(s, i, o)
    \/ \E s \in Symbols : \E d \in Diffs : DiffMessage(s, d)
    \/ \E s \in Symbols : \E sn \in Snapshots : SnapshotMessage(s, sn)
    \/ GarbageMessage
    \/ \E s \in Symbols : EmitTick(s)
    \/ \E s \in Symbols : \E a \in BOOLEAN : ResubscribeFire(s, a)
    \/ \E s \in Symbols : SyncTimerFire(s)
    \/ \E s \in Symbols : OrphanTimerFire(s)
    \/ \E s \in Symbols : CalculateCost(s)

Spec == Init /\ [][Next]_vars

\* ------------------------------------------- applying diffs one after another
\* The valid rows and the diffs made of them: well-formed, finite,
\* non-negative price and size; at most MaxRows rows over the two sides.
ValidRows == {Row(p, q) : p \in 1 .. MaxLevel, q \in 0 .. MaxSize}
RowSeqs == UNION {[1 .. k -> ValidRows] : k \in 0 .. MaxRows}
ValidDiffs == {[b |-> rb, a |-> ra] : rb \in RowSeqs, ra \in {x \in RowSeqs : Len(x) <= 1}}

\* The diff as the client at hand receives it.
AsDiff(pl) == IF ex = "coinbase" THEN [changes |-> Changes(pl)] ELSE pl

\* The quantity last written to each price by the rows, in their order.
RECURSIVE LastWrite(_, _)
LastWrite(m, rows) ==
    IF rows = <<>> THEN m
    ELSE LastWrite([p \in (DOMAIN m) \cup {Head(rows).p} |->
                       IF p = Head(rows).p THEN Head(rows).q ELSE m[p]], Tail(rows))

ApplyInit ==
    /\ ex \in Exchanges
    /\ ClientInit
    /\ book = NoMaps
    /\ last = NoMaps
    /\ snapshot = NoSnap
    /\ buffered = <<>>
    /\ received = <<>>
    /\ arg = Idle
    /\ ret = Idle
    /\ fees = Idle
    /\ seen = <<>>
    /\ currentPair = ""
    /\ liveReady = FALSE
    /\ costOn = "none"
    /\ hook = HookNew
    /\ ConverterNew

\* The next diff in marker order is applied to the maps (applyEvent,
\* applyUpdate of the client at hand).
ApplyValidDiff(pl) ==
    LET r == ApplyDiff(book.bids, book.asks, AsDiff(pl)) IN
    /\ ~r.threw
    /\ book' = [bids |-> r.bids, asks |-> r.asks]
    /\ last' = [bids |-> LastWrite(last.bids, pl.b), asks |-> LastWrite(last.asks, pl.a)]
    /\ UNCHANGED <<clientVars, outVars, replayVars, pureVars, engineVars>>

ApplyNext == \E pl \in ValidDiffs : ApplyValidDiff(pl)

SpecApply == ApplyInit /\ [][ApplyNext]_vars

\* ------------------------------------------------ replaying a buffer (pure)
\* The well-formed diffs of the stream, each with its marker: U = u (Binance),
\* seq (Bybit), ts (OKX), time (Coinbase l2update).
ReplayDiffs ==
    LET good == {pl \in Payloads : \A i \in 1 .. Len(pl.a) : pl.a[i].ok} IN
    IF ex = "binance"
    THEN {[U |-> i, u |-> i, b |-> pl.b, a |-> pl.a] : pl \in good, i \in Ids}
    ELSE IF ex = "bybit"
    THEN {[seq |-> i, ts |-> 0, b |-> pl.b, a |-> pl.a] : pl \in good, i \in Ids}
    ELSE IF ex = "okx"
    THEN {[ts |-> i, b |-> pl.b, a |-> pl.a] : pl \in good, i \in Ids}
    ELSE {[changes |-> Changes(pl), time |-> i] : pl \in good, i \in Ids}

MarkerOf(d) ==
    IF ex = "binance" THEN d.U
    ELSE IF ex = "bybit" THEN d.seq
    ELSE IF ex = "okx" THEN d.ts
    ELSE d.time

\* The maps a resync leaves when it finds buf in the buffer and receives
\* snap: the part of resync after its await, on a BookState of watchPair.
ResyncThenReplay(snap, buf) ==
    LET st == [NewState EXCEPT !.buffer = buf]
        done == IF ex = "binance" THEN BinanceResyncBody(st, snap).st
                ELSE IF ex = "bybit" THEN BybitInstall(st, snap, FALSE).st
                ELSE IF ex = "okx" THEN OkxInstall(st, snap).st
                ELSE CoinbaseInstall(st, snap).st
    IN  [bids |-> done.bids, asks |-> done.asks]

ReplayInit ==
    /\ ex \in Exchanges
    /\ ClientInit
    /\ book = NoMaps
    /\ last = NoMaps
    /\ snapshot \in Snapshots
    /\ buffered = <<>>
    /\ received = <<>>
    /\ arg = Idle
    /\ ret = Idle
    /\ fees = Idle
    /\ seen = <<>>
    /\ currentPair = ""
    /\ liveReady = FALSE
    /\ costOn = "none"
    /\ hook = HookNew
    /\ ConverterNew

\* One more diff, with a marker of its own, arrives while the resync waits.
Arrive(d) ==
    /\ Len(buffered) < MaxReplayed
    /\ \A i \in 1 .. Len(buffered) : MarkerOf(buffered[i]) # MarkerOf(d)
    /\ buffered' = Append(buffered, d)
    /\ UNCHANGED <<clientVars, outVars, applyVars, snapshot, received, pureVars, engineVars>>

ReplayNext == \E d \in ReplayDiffs : Arrive(d)

SpecReplay == ReplayInit /\ [][ReplayNext]_vars

\* ------------------------------------------------------ bucketizeOrderBook
\* idx.mul(tickDecimal) with idx = ratio.floor() (bid) or ratio.ceil() (ask);
\* prices and tick are whole numbers of the smallest price step.
\* An ask bucket computed as floor + 1, which moves a price that is on the
\* grid one bucket up.
BucketPriceNextUp(price, tick, side) ==
    IF side = "bid" THEN (price \div tick) * tick
    ELSE ((price \div tick) + 1) * tick

BucketPrice(price, tick, side) ==
    IF side = "bid" THEN (price \div tick) * tick
    ELSE (0 - ((0 - price) \div tick)) * tick

\* A loop that sets the bucket to the quantity of the level in hand: of the
\* levels that share a bucket the last one stays.
RECURSIVE BucketMapLastWins(_, _, _, _)
BucketMapLastWins(bucketMap, levels, tick, side) ==
    IF levels = <<>> THEN bucketMap
    ELSE BucketMapLastWins(MapSet(bucketMap, BucketPrice(Head(levels).price, tick, side),
                                  Head(levels).quantity),
                           Tail(levels), tick, side)

\* The loop of bucketOneSide: bucketMap.set(key, (bucketMap.get(key) ?? 0) + quantity).
RECURSIVE BucketMap(_, _, _, _)
BucketMap(bucketMap, levels, tick, side) ==
    IF levels = <<>> THEN bucketMap
    ELSE LET key == BucketPrice(Head(levels).price, tick, side)
             prev == IF key \in DOMAIN bucketMap THEN bucketMap[key] ELSE 0
         IN BucketMap(MapSet(bucketMap, key, prev + Head(levels).quantity),
                      Tail(levels), tick, side)

\* bucketOneSide(side): the buckets as levels, bids descending, asks ascending.
BucketOneSide(levels, tick, side) ==
    LET m == BucketMap(EmptyMap, levels, tick, side)
    IN  SortedLevels(m, DOMAIN m, side = "bid")

\* bucketizeOrderBook(book, tick); `!tick || tick <= 0` returns the book itself.
BucketizeOrderBook(b, tick) ==
    IF tick <= 0 THEN b
    ELSE [bids |-> BucketOneSide(b.bids, tick, "bid"),
          asks |-> BucketOneSide(b.asks, tick, "ask")]

Ticks == 0 .. MaxTick

\* --------------------------------------------- the book getOrderBook builds
\* getOrderBook past its guard: filter, map, sort of the two maps, then
\* bucketizeOrderBook with this.priceBucket.
BookOf(bids, asks, tick) ==
    BucketizeOrderBook([bids |-> Levels(bids, TRUE), asks |-> Levels(asks, FALSE)], tick)

\* Snapshots with any valid rows, zero sizes included.
BookSnapshots ==
    {[bids |-> rb, asks |-> ra, marker |-> m] :
        rb \in RowSeqs, ra \in {x \in RowSeqs : Len(x) <= 1}, m \in SnapMarkers}

\* A snapshot is installed into the maps (resync of the client at hand, its
\* buffer being empty).
BookSnapshot(snap) ==
    /\ book' = ResyncThenReplay(snap, <<>>)
    /\ UNCHANGED <<clientVars, outVars, last, replayVars, pureVars, engineVars>>

\* A valid diff is applied to the maps.
BookDiff(pl) ==
    LET r == ApplyDiff(book.bids, book.asks, AsDiff(pl)) IN
    /\ ~r.threw
    /\ book' = [bids |-> r.bids, asks |-> r.asks]
    /\ UNCHANGED <<clientVars, outVars, last, replayVars, pureVars, engineVars>>

BookNext ==
    \/ \E snap \in BookSnapshots : BookSnapshot(snap)
    \/ \E pl \in ValidDiffs : BookDiff(pl)

SpecBook == Init /\ [][BookNext]_vars

\* ------------------------------------------------------------------ claims
\* C1: in every book client, a diff for a symbol that arrives while the
\* symbol is syncing is not applied to the bid and ask maps: the maps are the
\* same after the message, and the buffer is either unchanged (the diff was
\* dropped) or the old buffer, capped, with the diff appended.
C1_SyncingDiffIsBuffered ==
    [][\A s \in Symbols : \A d \in Diffs :
          (DiffMessage(s, d) /\ s \in Watched /\ states[s].syncing)
              => /\ s \in DOMAIN states'
                 /\ states'[s].bids = states[s].bids
                 /\ states'[s].asks = states[s].asks
                 /\ states'[s].buffer \in {states[s].buffer, PushCapped(states[s].buffer, d)}
                 /\ states'[s].syncing]_vars

\* A symbol whose book holds levels is syncing again and a diff that arrived
\* meanwhile sits in its buffer.
C1_Witness ==
    \E s \in Watched :
        /\ states[s].syncing
        /\ states[s].installed
        /\ states[s].bids # EmptyMap
        /\ states[s].buffer # <<>>

\* C2: getOrderBook returns no book for a symbol that has no state or that is
\* syncing, and a book the emit timer delivered to the listeners is the book
\* getOrderBook returns for a watched symbol that is not syncing.
C2_BookOnlyWhenSynced ==
    /\ \A s \in Symbols :
           (s \notin Watched \/ states[s].syncing) => ~GetOrderBook(s).present
    /\ emitted.present =>
           \E s \in Watched : ~states[s].syncing /\ emitted = GetOrderBook(s)

\* The emit timer has just delivered a book with levels on both sides.
C2_Witness == emitted.present /\ emitted.bids # <<>> /\ emitted.asks # <<>>

\* C3: a watched symbol into whose BookState no snapshot has ever been
\* installed is reported absent by getOrderBook, also after its snapshot
\* request failed or returned no data.
C3_NeverInstalledIsAbsent ==
    \A s \in Watched : ~states[s].installed => ~GetOrderBook(s).present

\* The step in which reconnect() gets past `await this.connect()`.
ReconnectCompletes ==
    \/ OnOpen /\ connWait.kind = "reconnect"
    \/ ReconnectConnect /\ rc' = "idle"

\* C4: after an abnormal close the reconnect keeps every watched symbol
\* watched: reconnect() leaves the BookStates, the wanted subscriptions and
\* the listeners as they were, and once connected again it starts a resync of
\* every watched symbol.
C4_ReconnectKeepsWatched ==
    [][/\ ReconnectStart =>
              /\ Watched' = Watched
              /\ desired' = desired
              /\ listeners' = listeners
       /\ ReconnectCompletes =>
              \A s \in Watched :
                  s \in DOMAIN states' /\ states'[s].syncing /\ inflight'[s] > 0]_vars

\* C7: a resync whose symbol was unwatched while it awaited its snapshot
\* changes nothing when it resumes: it sends no message, schedules no timer
\* and leaves the subscription sets, the BookStates and the in-flight
\* resyncs of the client as they were.
C7_CancelledResyncChangesNothing ==
    [][\A s \in Symbols : \A i \in 1 .. MaxZombies : \A o \in Outcomes :
          ZombieDone(s, i, o)
              => /\ sent' = <<>>
                 /\ UNCHANGED <<desired, subscribed, states, inflight, resub, orphans>>]_vars

\* C8: when unwatchPair(s) returns, the BookState of s is removed (and its
\* emit interval and resync timer with it) and no resubscribe-delay callback
\* and no resync timer of s is pending any more.
C8_UnwatchStopsEveryTimer ==
    [][\A s \in Symbols :
          Unwatch(s)
              => /\ s \notin DOMAIN states'
                 /\ resub'[s].att = 0
                 /\ resub'[s].det = 0
                 /\ orphans'[s] = 0]_vars

\* C9: unwatchPair is idempotent: in every reachable state of the client and
\* for every symbol, watched or not, a second unwatchPair right after the
\* first sends no message and leaves the client as the first call left it.
C9_UnwatchIdempotent ==
    \A s \in Symbols :
        LET once == [UnwatchPair(Cur, s) EXCEPT !.out = <<>>]
        IN  UnwatchPair(once, s) = once

\* unwatchPair has just run on a connected client for a symbol that had a
\* resync in flight: it sent the unsubscribe and removed the BookState.
C9_Witness ==
    \E s \in Symbols :
        /\ s \notin Watched
        /\ s \notin desired
        /\ zombies[s] # <<>>
        /\ sent = <<Msg("unsubscribe", {s})>>

\* C10: a stream message that cannot be parsed, or whose processing throws,
\* is dropped whole: an unparsable message changes nothing in the client, and
\* a diff whose application throws leaves the bid and ask maps of its symbol
\* as they were (no part of it stays applied).
C10_FailedMessageChangesNothing ==
    [][/\ GarbageMessage => UNCHANGED clientVars
       /\ \A s \in Symbols : \A d \in Diffs :
              (DiffMessage(s, d) /\ s \in Watched /\ ApplyDiff(EmptyMap, EmptyMap, d).threw)
                  => /\ s \in DOMAIN states'
                     /\ states'[s].bids = states[s].bids
                     /\ states'[s].asks = states[s].asks]_vars

\* The levels of one side that the last writes leave: the prices whose last
\* written quantity is not zero, each with that quantity.
LastNonZero(m) == [p \in {x \in DOMAIN m : m[x] # 0} |-> m[p]]

\* C6: after any sequence of valid diffs applied in order to empty maps,
\* each side holds exactly the prices whose last write had a non-zero
\* quantity, each with the quantity of that last write.
C6_LastWritePerPrice ==
    /\ book.bids = LastNonZero(last.bids)
    /\ book.asks = LastNonZero(last.asks)

\* A bid price was written and then deleted, another bid price holds the
\* largest size, and an ask level exists.
C6_Witness ==
    /\ \E p \in DOMAIN last.bids : last.bids[p] = 0
    /\ \E p \in DOMAIN book.bids : book.bids[p] = MaxSize
    /\ book.asks # EmptyMap

\* The diffs of buf in the order of their markers.
InMarkerOrder(buf) ==
    CHOOSE q \in [1 .. Len(buf) -> {buf[i] : i \in 1 .. Len(buf)}] :
        /\ {q[i] : i \in 1 .. Len(q)} = {buf[i] : i \in 1 .. Len(buf)}
        /\ \A i \in 1 .. Len(q) : \A j \in 1 .. Len(q) :
               i < j => MarkerOf(q[i]) < MarkerOf(q[j])

\* C5: for a snapshot and a set of buffered diffs, the book a resync leaves
\* does not depend on the order in which the diffs arrived: it is the book
\* the resync leaves when the same diffs arrived in marker order.
C5_ReplayIgnoresArrivalOrder ==
    ResyncThenReplay(snapshot, buffered) = ResyncThenReplay(snapshot, InMarkerOrder(buffered))

\* One side of a book: strictly positive quantities, prices strictly
\* descending (bids) or ascending (asks), hence no price twice.
WellFormedSide(levels, desc) ==
    /\ \A i \in 1 .. Len(levels) : levels[i].quantity > 0
    /\ \A i \in 1 .. Len(levels) : \A j \in 1 .. Len(levels) :
           i < j => IF desc THEN levels[i].price > levels[j].price
                    ELSE levels[i].price < levels[j].price

\* C11: whatever snapshots and valid diffs the maps went through and whatever
\* the price bucket, the book getOrderBook builds has on each side only
\* strictly positive quantities and no price twice, bids in descending and
\* asks in ascending price order.
C11_BookLevelsWellFormed ==
    \A tick \in Ticks :
        LET b == BookOf(book.bids, book.asks, tick)
        IN  WellFormedSide(b.bids, TRUE) /\ WellFormedSide(b.asks, FALSE)

\* The bid map stores a zero quantity (a Binance snapshot row) next to a
\* level, and two ask levels fall into one bucket of the largest tick.
C11_Witness ==
    /\ \E p \in DOMAIN book.bids : book.bids[p] = 0
    /\ \E p \in DOMAIN book.bids : book.bids[p] > 0
    /\ Len(Levels(book.asks, FALSE)) = 2
    /\ Len(BookOf(book.bids, book.asks, MaxTick).asks) = 1

\* C12: the cost calculator only ever runs for an exchange while its
\* synchronizer exposes a synchronized book: whenever a step ran it (on the
\* live book or on a REST book), getOrderBook returns a book for the pair.
C12_CostOnlyOnSyncedBook ==
    costOn \in {"live", "rest"} => \E s \in Symbols : GetOrderBook(s).present

\* ---------------------------------------------------------------------
\* Execution simulator (core/services/cost-calculator.ts).  A Decimal is an
\* exact fraction n/d in lowest terms with d > 0; book prices and
\* quantities are the numbers of an OrderBookEntry.

RECURSIVE GCD(_, _)
GCD(a, b) == IF b = 0 THEN a ELSE GCD(b, a % b)

Abs(x) == IF x < 0 THEN 0 - x ELSE x

Dec(n, d) ==
    LET g == GCD(Abs(n), d)
    IN  [n |-> n \div g, d |-> d \div g]

DecOf(i) == [n |-> i, d |-> 1]

Zero == DecOf(0)

DecAdd(a, b) == Dec(a.n * b.d + b.n * a.d, a.d * b.d)

DecSub(a, b) == Dec(a.n * b.d - b.n * a.d, a.d * b.d)

DecMul(a, b) == Dec(a.n * b.n, a.d * b.d)

DecDiv(a, b) ==
    IF b.n > 0 THEN Dec(a.n * b.d, a.d * b.n)
    ELSE Dec(0 - (a.n * b.d), a.d * (0 - b.n))

DecLt(a, b) == a.n * b.d < b.n * a.d

DecLte(a, b) == a.n * b.d <= b.n * a.d

DecGt(a, b) == DecLt(b, a)

DecMin(a, b) == IF DecLt(b, a) THEN b ELSE a

\* A walk that takes the whole level instead of min(remaining, quantity).
RECURSIVE WalkBaseWholeLevel(_, _, _, _)
WalkBaseWholeLevel(entries, i, remaining, quoteCost) ==
    IF i > Len(entries) THEN [remaining |-> remaining, quoteCost |-> quoteCost]
    ELSE LET priceDecimal == DecOf(entries[i].price)
             takeBase == DecOf(entries[i].quantity)
             cost == DecAdd(quoteCost, DecMul(takeBase, priceDecimal))
             rest == DecSub(remaining, takeBase)
         IN  IF DecLte(rest, Zero) THEN [remaining |-> rest, quoteCost |-> cost]
             ELSE WalkBaseWholeLevel(entries, i + 1, rest, cost)

RECURSIVE WalkBase(_, _, _, _)
WalkBase(entries, i, remaining, quoteCost) ==
    IF i > Len(entries) THEN [remaining |-> remaining, quoteCost |-> quoteCost]
    ELSE LET priceDecimal == DecOf(entries[i].price)
             quantityDecimal == DecOf(entries[i].quantity)
             takeBase == DecMin(remaining, quantityDecimal)
             cost == DecAdd(quoteCost, DecMul(takeBase, priceDecimal))
             rest == DecSub(remaining, takeBase)
         IN  IF DecLte(rest, Zero) THEN [remaining |-> rest, quoteCost |-> cost]
             ELSE WalkBase(entries, i + 1, rest, cost)

CalculateQuoteCost(entries, sizeBase) ==
    LET w == WalkBase(entries, 1, sizeBase, Zero)
    IN  IF DecGt(w.remaining, Zero)
        THEN [threw |-> TRUE, available |-> DecSub(sizeBase, w.remaining)]
        ELSE [threw |-> FALSE, quoteCost |-> w.quoteCost,
              avgPrice |-> DecDiv(w.quoteCost, sizeBase)]

\* A quote walk that counts a level's base quantity as its quote capacity.
RECURSIVE WalkQuoteBaseCapacity(_, _, _, _)
WalkQuoteBaseCapacity(entries, i, remainingQuote, baseTotal) ==
    IF i > Len(entries)
    THEN [remainingQuote |-> remainingQuote, baseTotal |-> baseTotal]
    ELSE LET priceDecimal == DecOf(entries[i].price)
             quantityDecimal == DecOf(entries[i].quantity)
             takeQuote == DecMin(remainingQuote, quantityDecimal)
             takeBase == DecDiv(takeQuote, priceDecimal)
             total == DecAdd(baseTotal, takeBase)
             rest == DecSub(remainingQuote, takeQuote)
         IN  IF DecLte(rest, Zero)
             THEN [remainingQuote |-> rest, baseTotal |-> total]
             ELSE WalkQuoteBaseCapacity(entries, i + 1, rest, total)

RECURSIVE WalkQuote(_, _, _, _)
WalkQuote(entries, i, remainingQuote, baseTotal) ==
    IF i > Len(entries)
    THEN [remainingQuote |-> remainingQuote, baseTotal |-> baseTotal]
    ELSE LET priceDecimal == DecOf(entries[i].price)
             quantityDecimal == DecOf(entries[i].quantity)
             levelQuoteCapacity == DecMul(quantityDecimal, priceDecimal)
             takeQuote == DecMin(remainingQuote, levelQuoteCapacity)
         IN  IF DecLte(priceDecimal, Zero) \/ DecLte(quantityDecimal, Zero)
                \/ DecLte(takeQuote, Zero)
             THEN WalkQuote(entries, i + 1, remainingQuote, baseTotal)
             ELSE LET takeBase == DecDiv(takeQuote, priceDecimal)
                      total == DecAdd(baseTotal, takeBase)
                      rest == DecSub(remainingQuote, takeQuote)
                  IN  IF DecLte(rest, Zero)
                      THEN [remainingQuote |-> rest, baseTotal |-> total]
                      ELSE WalkQuote(entries, i + 1, rest, total)

CalculateBaseForQuoteTarget(entries, quoteTarget) ==
    LET w == WalkQuote(entries, 1, quoteTarget, Zero)
    IN  IF DecGt(w.remainingQuote, Zero)
        THEN [threw |-> TRUE, available |-> DecSub(quoteTarget, w.remainingQuote)]
        ELSE [threw |-> FALSE, baseAmount |-> w.baseTotal,
              avgPrice |-> IF DecGt(w.baseTotal, Zero)
                           THEN DecDiv(quoteTarget, w.baseTotal) ELSE Zero]

GetReferencePrice(side, b, basis) ==
    IF basis = "mid"
    THEN DecDiv(DecAdd(DecOf(b.bids[1].price), DecOf(b.asks[1].price)), DecOf(2))
    ELSE DecOf(IF side = "buy" THEN b.asks[1].price ELSE b.bids[1].price)

\* A slippage that keeps a negative delta instead of clamping it to zero.
CalculateSlippageUnclamped(side, referencePrice, avgPrice) ==
    LET rawDelta == IF side = "buy" THEN DecSub(avgPrice, referencePrice)
                    ELSE DecSub(referencePrice, avgPrice)
    IN  [slippageQuotePerUnit |-> rawDelta,
         slippageRate |-> IF DecGt(referencePrice, Zero)
                          THEN DecDiv(rawDelta, referencePrice) ELSE Zero]

CalculateSlippage(side, referencePrice, avgPrice) ==
    LET delta == IF side = "buy" THEN DecSub(avgPrice, referencePrice)
                 ELSE DecSub(referencePrice, avgPrice)
        rawDelta == IF DecLt(delta, Zero) THEN Zero ELSE delta
    IN  [slippageQuotePerUnit |-> rawDelta,
         slippageRate |-> IF DecGt(referencePrice, Zero)
                          THEN DecDiv(rawDelta, referencePrice) ELSE Zero]

\* usdConverter.convert(asset, 1): the price of the asset, or a throw when
\* no price source answers.  conv names which conversions fail.
UsdPerQuote == DecOf(2)

UsdPerThird == DecOf(3)

ConvertThrows(conv, asset) ==
    \/ conv = "quoteFails" /\ asset = "quote"
    \/ conv = "thirdFails" /\ asset = "third"

\* buildFeeItem: the fee in the fee asset (base, quote or a third asset).
BuildFeeItem(feeAsset, feeRate, sizeBaseExecuted, quoteCost, usdPerBase, usdPerQuote) ==
    IF feeAsset = "base"
    THEN LET amount == DecMul(sizeBaseExecuted, feeRate)
         IN  [amount |-> amount, asset |-> "base",
              usd |-> DecMul(amount, usdPerBase), rate |-> feeRate]
    ELSE IF feeAsset = "quote"
    THEN LET amount == DecMul(quoteCost, feeRate)
         IN  [amount |-> amount, asset |-> "quote",
              usd |-> DecMul(amount, usdPerQuote), rate |-> feeRate]
    ELSE LET executionUSD == DecMul(quoteCost, usdPerQuote)
             feeUsd == DecMul(executionUSD, feeRate)
             amount == IF DecGt(UsdPerThird, Zero)
                       THEN DecDiv(feeUsd, UsdPerThird) ELSE Zero
         IN  [amount |-> amount, asset |-> "third", usd |-> feeUsd, rate |-> feeRate]

Threw(msg) == [threw |-> msg]

\* The fee asset of the scenario: opts.feeAsset, else the received asset.
ScenarioFeeAsset(in) ==
    IF in.feeAsset # "default" THEN in.feeAsset
    ELSE IF in.side = "buy" THEN "base" ELSE "quote"

EffRate(feeRates) ==
    IF "final" \in DOMAIN feeRates THEN feeRates.final.taker ELSE feeRates.base.taker

\* Net received amounts after fees.
NetBaseReceived(side, isBase, executedBase, feeAmt) ==
    IF side = "buy"
    THEN (IF isBase THEN DecSub(executedBase, feeAmt) ELSE executedBase)
    ELSE Zero

\* A net quote amount that deducts the fee whatever asset it is charged in.
NetQuoteAlwaysLessFee(side, isQuote, executedQuote, feeAmt) ==
    IF side = "sell" THEN DecSub(executedQuote, feeAmt) ELSE Zero

NetQuoteReceived(side, isQuote, executedQuote, feeAmt) ==
    IF side = "sell"
    THEN DecSub(executedQuote, IF isQuote THEN feeAmt ELSE Zero)
    ELSE Zero

\* calculateCost after the walk: slippage, conversions, fee item, net
\* received amounts and totals.
Breakdown(in, executedQuote, executedBase, avgPrice) ==
    LET side == in.side
        referencePrice == GetReferencePrice(side, in.book, in.basis)
        slip == CalculateSlippage(side, referencePrice, avgPrice)
        slippageQuote == DecMul(slip.slippageQuotePerUnit, executedBase)
        usdPerQuote == UsdPerQuote
        usdPerBase == DecMul(usdPerQuote, avgPrice)
        executionUSD == DecMul(usdPerQuote, executedQuote)
        feeAsset == ScenarioFeeAsset(in)
        feeRate == EffRate(in.feeRates)
        feeItem == BuildFeeItem(feeAsset, feeRate, executedBase, executedQuote,
                                usdPerBase, usdPerQuote)
        feeUSD == feeItem.usd
        feeAmt == feeItem.amount
        isBase == feeItem.asset = "base"
        isQuote == feeItem.asset = "quote"
        netBaseReceived == NetBaseReceived(side, isBase, executedBase, feeAmt)
        netQuoteReceived == NetQuoteReceived(side, isQuote, executedQuote, feeAmt)
        totalQuote == IF side = "buy"
                      THEN DecAdd(executedQuote, IF isQuote THEN feeAmt ELSE Zero)
                      ELSE Zero
        totalBase == IF side = "sell"
                     THEN DecAdd(executedBase, IF isBase THEN feeAmt ELSE Zero)
                     ELSE Zero
    IN  IF ConvertThrows(in.conv, "quote") THEN Threw("Conversion failed")
        ELSE IF feeAsset = "third" /\ ConvertThrows(in.conv, "third")
        THEN Threw("Conversion failed")
        ELSE [threw |-> "",
              sizeAsset |-> in.sizeAsset,
              side |-> side,
              sizeBase |-> executedBase,
              averagePrice |-> avgPrice,
              referencePrice |-> referencePrice,
              execution |-> [amount |-> executedQuote, asset |-> "quote",
                             usd |-> executionUSD],
              slippage |-> [amount |-> slippageQuote, asset |-> "quote",
                            usd |-> DecMul(usdPerQuote, slippageQuote),
                            rate |-> slip.slippageRate],
              tradingFee |-> feeItem,
              netBaseReceived |-> netBaseReceived,
              netQuoteReceived |-> netQuoteReceived,
              totalQuote |-> totalQuote,
              totalBase |-> totalBase,
              totalTradeUsd |-> DecAdd(executionUSD, feeUSD)]

CalculateCostOf(in) ==
    LET sizeDecimal == DecOf(in.size)
        entries == IF in.side = "buy" THEN in.book.asks ELSE in.book.bids
    IN  IF DecLte(sizeDecimal, Zero) THEN Threw("Size must be positive")
        ELSE IF in.book.asks = <<>> \/ in.book.bids = <<>>
        THEN Threw("Empty order book")
        ELSE IF in.sizeAsset = "base"
        THEN LET r == CalculateQuoteCost(entries, sizeDecimal)
             IN  IF r.threw THEN Threw("Insufficient liquidity")
                 ELSE Breakdown(in, r.quoteCost, sizeDecimal, r.avgPrice)
        ELSE LET r == CalculateBaseForQuoteTarget(entries, sizeDecimal)
             IN  IF r.threw THEN Threw("Insufficient liquidity")
                 ELSE Breakdown(in, sizeDecimal, r.baseAmount, r.avgPrice)

\* The books handed to the simulator: each side in quoted order (bids
\* descending, asks ascending) with positive prices and quantities, and the
\* book asks [(100,1),(101,2)] of the documented example.
CostSides(desc) ==
    LET keySets == {T \in SUBSET (1 .. MaxCostPrice) : Cardinality(T) <= MaxCostLevels}
        maps == UNION {[T -> 1 .. MaxCostQty] : T \in keySets}
    IN  {SortedLevels(m, DOMAIN m, desc) : m \in maps}

ExampleBook ==
    [bids |-> <<[price |-> 99, quantity |-> 1]>>,
     asks |-> <<[price |-> 100, quantity |-> 1], [price |-> 101, quantity |-> 2]>>]

CostBooks ==
    {[bids |-> b, asks |-> a] : b \in CostSides(TRUE), a \in CostSides(FALSE)}
        \cup {ExampleBook}

FeeRatesIn == [base |-> [taker |-> Dec(1, 5)], final |-> [taker |-> Dec(1, 10)]]

CostInputs ==
    [book : CostBooks, size : 0 .. MaxOrder, side : {"buy", "sell"},
     sizeAsset : {"base", "quote"}, basis : {"best-side", "mid"},
     feeAsset : {"default", "base", "quote", "third"},
     conv : {"ok", "quoteFails", "thirdFails"}, feeRates : {FeeRatesIn}]

PureInit == Init /\ ex = "binance"

Simulate ==
    /\ arg = Idle
    /\ \E in \in CostInputs : arg' = in /\ ret' = CalculateCostOf(in)
    /\ UNCHANGED <<clientVars, outVars, applyVars, replayVars, engineVars, fees, seen, converterVars>>

CostNext == Simulate

SpecCost == PureInit /\ [][CostNext]_vars

\* The side a simulation walks, its total base quantity and quote capacity.
WalkedSide(in) == IF in.side = "buy" THEN in.book.asks ELSE in.book.bids

RECURSIVE CumBase(_, _)
CumBase(entries, i) ==
    IF i = 0 THEN 0 ELSE CumBase(entries, i - 1) + entries[i].quantity

RECURSIVE CumQuote(_, _)
CumQuote(entries, i) ==
    IF i = 0 THEN 0
    ELSE CumQuote(entries, i - 1) + entries[i].quantity * entries[i].price

Max2(a, b) == IF a > b THEN a ELSE b

Min2(a, b) == IF a < b THEN a ELSE b

\* What a best-first fill of `size` base takes from level i.
TakenAt(entries, i, size) ==
    Min2(Max2(0, size - CumBase(entries, i - 1)), entries[i].quantity)

RECURSIVE CostOfTaken(_, _, _)
CostOfTaken(entries, i, size) ==
    IF i = 0 THEN 0
    ELSE CostOfTaken(entries, i - 1, size) + entries[i].price * TakenAt(entries, i, size)

Simulated == arg # Idle

BothSides(in) == in.book.bids # <<>> /\ in.book.asks # <<>>

\* C13: an order of size S in base asset that the walked side can fully
\* fill yields, whenever the conversions answer, a breakdown with executed
\* base exactly S and average price exactly (sum over the levels best-first
\* of price x min(remaining, level quantity)) / S; asks [(100,1),(101,2)]
\* with buy size 2 gives average price 100.5 and executed base 2.
C13_BaseFill ==
    (Simulated /\ arg.sizeAsset = "base" /\ arg.size > 0 /\ BothSides(arg)
        /\ CumBase(WalkedSide(arg), Len(WalkedSide(arg))) >= arg.size)
    => /\ ret.threw \in {"", "Conversion failed"}
       /\ arg.conv = "ok" => ret.threw = ""
       /\ ret.threw = "" =>
            /\ ret.sizeBase = DecOf(arg.size)
            /\ ret.averagePrice
                 = Dec(CostOfTaken(WalkedSide(arg), Len(WalkedSide(arg)), arg.size),
                       arg.size)
            /\ (arg.book = ExampleBook /\ arg.side = "buy" /\ arg.size = 2)
                 => ret.averagePrice = Dec(201, 2) /\ ret.sizeBase = DecOf(2)

\* The documented example ran: a buy of 2 base on asks [(100,1),(101,2)]
\* that takes one unit from each of the two levels.
C13_Witness ==
    /\ Simulated /\ arg.book = ExampleBook /\ arg.side = "buy"
    /\ arg.sizeAsset = "base" /\ arg.size = 2
    /\ ret.threw = "" /\ ret.averagePrice = Dec(201, 2)
    /\ TakenAt(arg.book.asks, 2, arg.size) = 1

CumBaseAll(in) == CumBase(WalkedSide(in), Len(WalkedSide(in)))

CumQuoteAll(in) == CumQuote(WalkedSide(in), Len(WalkedSide(in)))

\* C14 as stated: on a book with both sides and a positive size the
\* simulator fails with insufficient liquidity if and only if the cumulative
\* base (buy) or quote capacity (sell) of the walked side is strictly less
\* than the size, and otherwise returns a breakdown.
C14_ShortBySide ==
    (Simulated /\ arg.size > 0 /\ BothSides(arg))
    => LET short == IF arg.side = "buy" THEN CumBaseAll(arg) < arg.size
                    ELSE CumQuoteAll(arg) < arg.size
       IN  /\ (ret.threw = "Insufficient liquidity") <=> short
           /\ ~short => ret.threw = ""

\* C14 amended: on a book with both sides and a positive size the simulator
\* fails with insufficient liquidity if and only if the cumulative base
\* (size in base asset) or quote capacity (size in quote asset) of the
\* walked side is strictly less than the size; otherwise it returns a
\* breakdown unless a USD conversion fails.
C14_ShortBySizeAsset ==
    (Simulated /\ arg.size > 0 /\ BothSides(arg))
    => LET short == IF arg.sizeAsset = "base" THEN CumBaseAll(arg) < arg.size
                    ELSE CumQuoteAll(arg) < arg.size
       IN  /\ (ret.threw = "Insufficient liquidity") <=> short
           /\ ~short => ret.threw \in {"", "Conversion failed"}
           /\ (~short /\ arg.conv = "ok") => ret.threw = ""
           /\ ret.threw = "Conversion failed" => arg.conv # "ok"

\* A buy sized in quote asset is filled although the asks hold less base
\* than the number requested: their quote capacity covers it.
C14_Witness ==
    /\ Simulated /\ arg.side = "buy" /\ arg.sizeAsset = "quote" /\ BothSides(arg)
    /\ CumBaseAll(arg) < arg.size /\ arg.size <= CumQuoteAll(arg)
    /\ Len(arg.book.asks) = 2
    /\ ret.threw = ""

\* C15: whatever the book, side, size, size denomination and reference
\* basis, a breakdown reports a slippage rate and slippage amount that are
\* not negative.
C15_SlippageNonNegative ==
    (Simulated /\ ret.threw = "")
    => /\ ret.slippage.rate.n >= 0
       /\ ret.slippage.amount.n >= 0
       /\ ret.slippage.usd.n >= 0

\* A buy measured against the mid price of a crossed book fills below the
\* reference: the negative delta is reported as zero slippage.
C15_Witness ==
    /\ Simulated /\ ret.threw = "" /\ arg.side = "buy" /\ arg.basis = "mid"
    /\ DecLt(ret.averagePrice, ret.referencePrice)
    /\ ret.slippage.rate = Zero /\ ret.slippage.amount = Zero

ReceivedAsset(in) == IF in.side = "buy" THEN "base" ELSE "quote"

\* C16: in a breakdown the net received (base on a buy, quote on a sell)
\* is the fill minus the fee, the fee being fill x rate, exactly when the fee
\* asset is the received asset; with any other fee asset the net received is
\* the fill itself, and the fee item names the fee asset with a positive
\* amount of its own.
C16_NetReceived ==
    (Simulated /\ ret.threw = "")
    => LET fee == ret.tradingFee
           fill == IF arg.side = "buy" THEN ret.sizeBase ELSE ret.execution.amount
           net == IF arg.side = "buy" THEN ret.netBaseReceived ELSE ret.netQuoteReceived
       IN  /\ fee.asset = ScenarioFeeAsset(arg)
           /\ fee.amount.n > 0
           /\ fee.asset = ReceivedAsset(arg)
                => /\ fee.amount = DecMul(fill, EffRate(arg.feeRates))
                   /\ net = DecSub(fill, fee.amount)
           /\ fee.asset # ReceivedAsset(arg) => net = fill
           /\ (net = DecSub(fill, fee.amount)) <=> (fee.asset = ReceivedAsset(arg))

\* A sell charged in a third asset: the quote proceeds are received whole
\* and the fee stands beside them in its own asset.
C16_Witness ==
    /\ Simulated /\ ret.threw = "" /\ arg.side = "sell"
    /\ ret.tradingFee.asset = "third" /\ ret.tradingFee.amount.n > 0
    /\ ret.netQuoteReceived = ret.execution.amount
    /\ Len(arg.book.bids) = 2 /\ arg.size > arg.book.bids[1].quantity

\* ---------------------------------------------------------------------
\* Fee-rate engine (calculateFeeRates).  Rates are exact fractions.  An
\* optional property of a JSON object is a record field that is present or
\* not.  A rates object {maker, taker} carries `own`: TRUE for an object
\* the call created, FALSE for one that belongs to the schedule, so that a
\* write to it shows where it lands.

Given(r, f) == f \in DOMAIN r

ToUpperCase(str) ==
    IF str = "bnb" THEN "BNB" ELSE IF str = "btc" THEN "BTC" ELSE str

ParsePair(pair) ==
    IF pair = "BTC/USDT" THEN [base |-> "BTC", quote |-> "USDT"]
    ELSE IF pair = "ETH-BTC" THEN [base |-> "ETH", quote |-> "BTC"]
    ELSE [base |-> ToUpperCase(pair), quote |-> ""]

PairName(pp) == IF pp.base = "BTC" /\ pp.quote = "USDT" THEN "BTC/USDT"
                ELSE IF pp.base = "ETH" /\ pp.quote = "BTC" THEN "ETH/BTC"
                ELSE pp.base

Fresh(maker, taker) == [maker |-> maker, taker |-> taker, own |-> TRUE]

ApplyModifier(effect, tier, cur) ==
    IF effect.mode = "override"
    THEN Fresh(IF Given(effect, "maker") THEN effect.maker ELSE cur.maker,
               IF Given(effect, "taker") THEN effect.taker ELSE cur.taker)
    ELSE IF effect.mode = "multiply"
    THEN Fresh(IF Given(effect, "maker") THEN DecMul(cur.maker, effect.maker) ELSE cur.maker,
               IF Given(effect, "taker") THEN DecMul(cur.taker, effect.taker) ELSE cur.taker)
    ELSE IF effect.mode = "add"
    THEN Fresh(IF Given(effect, "maker") THEN DecAdd(cur.maker, effect.maker) ELSE cur.maker,
               IF Given(effect, "taker") THEN DecAdd(cur.taker, effect.taker) ELSE cur.taker)
    ELSE IF effect.mode = "override_per_tier"
    THEN LET hasRow == Given(effect, "perTier") /\ tier \in DOMAIN effect.perTier
         IN  Fresh(IF hasRow /\ Given(effect.perTier[tier], "maker")
                   THEN effect.perTier[tier].maker ELSE cur.maker,
                   IF hasRow /\ Given(effect.perTier[tier], "taker")
                   THEN effect.perTier[tier].taker ELSE cur.taker)
    ELSE cur

\* A discount that multiplies by the value instead of by one minus it.
ApplyDiscountAsFactor(rate, discount) ==
    IF discount.type = "percentage" THEN DecMul(rate, discount.value)
    ELSE IF discount.type = "bps"
    THEN DecMul(rate, DecDiv(discount.value, DecOf(10000)))
    ELSE IF discount.type = "absolute"
    THEN DecSub(rate, discount.value)
    ELSE rate

ApplyDiscount(rate, discount) ==
    IF discount.type = "percentage"
    THEN DecMul(rate, DecSub(DecOf(1), discount.value))
    ELSE IF discount.type = "bps"
    THEN DecMul(rate, DecSub(DecOf(1), DecDiv(discount.value, DecOf(10000))))
    ELSE IF discount.type = "absolute"
    THEN DecSub(rate, discount.value)
    ELSE rate

Matches(modifier, pair, tier, exec) ==
    LET pp == ParsePair(pair)
        mm == IF Given(modifier, "match") THEN modifier.match ELSE EmptyMap
    IN  /\ Given(mm, "quoteAssets") => pp.quote \in mm.quoteAssets
        /\ Given(mm, "baseAssets") => pp.base \in mm.baseAssets
        /\ Given(mm, "pairs") => PairName(pp) \in mm.pairs
        /\ Given(mm, "exec") => exec \in mm.exec
        /\ Given(mm, "tiers") => tier \in mm.tiers

\* No modifier carries any stacking flag.
StackingNever(mod, flag, v) == FALSE

StackingIs(mod, flag, v) ==
    Given(mod, "stacking") /\ Given(mod.stacking, flag) /\ mod.stacking[flag] = v

\* The loop over the modifiers from position i on; st holds cur, the trail
\* and the two allowFurther flags.
RECURSIVE ModifierLoop(_, _, _, _, _)
ModifierLoop(mods, i, ctx, tier, st) ==
    IF i > Len(mods) \/ ~st.allowFurtherModifiers THEN st
    ELSE IF ~Matches(mods[i], ctx.pair, tier, ctx.exec)
    THEN ModifierLoop(mods, i + 1, ctx, tier, st)
    ELSE LET mod == mods[i]
             cur == ApplyModifier(mod.effect, tier, st.cur)
             modifierId == IF mod.effect.mode \in {"override", "override_per_tier"}
                           THEN <<"Override with", mod.id>> ELSE <<"Apply", mod.id>>
             trail == Append(st.feeRateAnalysis,
                             [id |-> modifierId, type |-> mod.effect.mode,
                              rate |-> cur.taker])
             after == [cur |-> cur, feeRateAnalysis |-> trail,
                       allowFurtherModifiers |->
                           ~StackingIs(mod, "withOtherModifiers", FALSE),
                       allowFurtherDiscounts |->
                           st.allowFurtherDiscounts
                               /\ ~StackingIs(mod, "withDiscounts", FALSE)]
         IN  IF StackingIs(mod, "exclusive", TRUE)
             THEN [st EXCEPT !.cur = cur, !.feeRateAnalysis = trail]
             ELSE ModifierLoop(mods, i + 1, ctx, tier, after)

\* The schedule's own row instead of a copy of it.
TierShared(fd, tier) ==
    [maker |-> fd.schedule.tiers[tier].maker,
     taker |-> fd.schedule.tiers[tier].taker, own |-> FALSE]

\* cur = { ...schedule.tiers[tier] }: a copy of the tier's row.
TierCopy(fd, tier) ==
    [maker |-> fd.schedule.tiers[tier].maker,
     taker |-> fd.schedule.tiers[tier].taker, own |-> TRUE]

DiscountApplies(fd, ctx, allowFurtherDiscounts) ==
    /\ Given(fd, "tokenDiscount")
    /\ fd.tokenDiscount.order = "after_modifiers"
    /\ Given(fd.tokenDiscount, "requires")
    /\ Given(fd.tokenDiscount.requires, "feeAsset")
    /\ fd.tokenDiscount.requires.feeAsset # ""
    /\ ToUpperCase(fd.tokenDiscount.requires.feeAsset)
         = ToUpperCase(IF Given(ctx, "feeAsset") THEN ctx.feeAsset ELSE "")
    /\ allowFurtherDiscounts

\* The writes cur.maker = ..., cur.taker = ... of the token discount.
Discounted(cur, discount) ==
    [cur EXCEPT
        !.maker = IF "maker" \in discount.appliesTo
                  THEN ApplyDiscount(cur.maker, discount) ELSE cur.maker,
        !.taker = IF "taker" \in discount.appliesTo
                  THEN ApplyDiscount(cur.taker, discount) ELSE cur.taker]

\* The fee data after a write to cur: unchanged unless cur is the
\* schedule's own row.
AfterWrite(fd, tier, cur) ==
    IF cur.own THEN fd
    ELSE [fd EXCEPT !.schedule.tiers[tier] = [maker |-> cur.maker, taker |-> cur.taker]]

TierOf(fd, ctx) ==
    IF Given(ctx, "userTier") /\ ctx.userTier # ""
       /\ ctx.userTier \in DOMAIN fd.schedule.tiers
    THEN ctx.userTier ELSE fd.schedule.defaultTier

\* A test of the custom rate by truthiness, which takes 0 for no rate.
CustomTruthy(ctx) == Given(ctx, "customFees") /\ ctx.customFees # Zero

\* ctx.customFees !== undefined.
CustomSupplied(ctx) == Given(ctx, "customFees")

\* calculateFeeRates started from the rates object `first`: the result and
\* the fee data as the call leaves it.
FeeRatesFrom(fd, ctx, tier, first) ==
    LET default == <<[id |-> <<"Apply", tier, "fee">>, type |-> "default",
                      rate |-> fd.schedule.tiers[tier].taker]>>
        mods == IF Given(fd, "modifiers") THEN fd.modifiers ELSE <<>>
        looped == ModifierLoop(mods, 1, ctx, tier,
                               [cur |-> first, feeRateAnalysis |-> default,
                                allowFurtherModifiers |-> TRUE,
                                allowFurtherDiscounts |-> TRUE])
        discount == DiscountApplies(fd, ctx, looped.allowFurtherDiscounts)
        cur == IF ~CustomSupplied(ctx)
               THEN (IF discount THEN Discounted(looped.cur, fd.tokenDiscount)
                     ELSE looped.cur)
               ELSE Fresh(ctx.customFees, ctx.customFees)
        trail == IF ~CustomSupplied(ctx)
                 THEN (IF discount
                       THEN Append(looped.feeRateAnalysis,
                                   [id |-> <<"Apply", fd.tokenDiscount.id>>,
                                    type |-> "token_discount", rate |-> cur.taker])
                       ELSE looped.feeRateAnalysis)
                 ELSE Append(default, [id |-> <<"Override with custom fee">>,
                                       type |-> "custom", rate |-> cur.taker])
        left == IF ~CustomSupplied(ctx) /\ discount
                THEN AfterWrite(fd, tier, cur) ELSE fd
    IN  [result |-> [base |-> [maker |-> left.schedule.tiers[tier].maker,
                               taker |-> left.schedule.tiers[tier].taker,
                               tier |-> tier, schedule |-> left.schedule.name],
                     final |-> [maker |-> cur.maker, taker |-> cur.taker],
                     feeRateAnalysis |-> trail],
         fees |-> left]

CalculateFeeRates(fd, ctx) ==
    FeeRatesFrom(fd, ctx, TierOf(fd, ctx), TierCopy(fd, TierOf(fd, ctx)))

\* The fee files of the model: two tiers, up to MaxModifiers modifiers out
\* of a pool with every effect mode and stacking flag, and no token
\* discount or one of two.
Tiers ==
    [VIP0 |-> [maker |-> Dec(1, 1000), taker |-> Dec(1, 1000)],
     VIP1 |-> [maker |-> Dec(8, 10000), taker |-> Dec(9, 10000)]]

HalfModifier ==
    [id |-> "promo", effect |-> [mode |-> "multiply", taker |-> Dec(1, 2)]]

ModifierPool ==
    {HalfModifier,
     [id |-> "zero-fee", match |-> [pairs |-> {"BTC/USDT"}],
      effect |-> [mode |-> "override", maker |-> Zero, taker |-> Zero],
      stacking |-> [exclusive |-> TRUE]],
     [id |-> "btc-quote", match |-> [quoteAssets |-> {"BTC"}, exec |-> {"taker"}],
      effect |-> [mode |-> "add", taker |-> Dec(1, 10000)],
      stacking |-> [withDiscounts |-> FALSE]],
     [id |-> "vip", match |-> [tiers |-> {"VIP1"}],
      effect |-> [mode |-> "override_per_tier",
                  perTier |-> [VIP1 |-> [taker |-> Dec(5, 10000)]]],
      stacking |-> [withOtherModifiers |-> FALSE]]}

ModifierLists ==
    {q \in UNION {[1 .. k -> ModifierPool] : k \in 0 .. MaxModifiers} :
        \A i \in DOMAIN q : \A j \in DOMAIN q : i # j => q[i] # q[j]}

QuarterDiscount ==
    [id |-> "bnb-discount", type |-> "percentage", value |-> Dec(1, 4),
     appliesTo |-> {"taker"}, requires |-> [feeAsset |-> "BNB"],
     order |-> "after_modifiers"]

TokenDiscounts ==
    {QuarterDiscount,
     [id |-> "bnb-bps", type |-> "bps", value |-> DecOf(2500),
      appliesTo |-> {"maker", "taker"}, requires |-> [feeAsset |-> "BNB"],
      order |-> "after_modifiers"]}

FeeFile(mods) ==
    [exchange |-> "Binance",
     schedule |-> [name |-> "spot", defaultTier |-> "VIP0", tiers |-> Tiers],
     modifiers |-> mods]

FeeDatas ==
    {FeeFile(mods) : mods \in ModifierLists}
        \cup {FeeFile(mods) @@ ("tokenDiscount" :> d) :
                 mods \in ModifierLists, d \in TokenDiscounts}

Optional(recs, field, values) ==
    recs \cup {r @@ (field :> v) : r \in recs, v \in values}

FeeContexts ==
    Optional(Optional(Optional(
        {[pair |-> p, exec |-> "taker"] : p \in {"BTC/USDT", "ETH-BTC"}},
        "userTier", {"VIP1"}),
        "feeAsset", {"bnb", "USDT"}),
        "customFees", {Zero, Dec(1, 100)})

FeeInit ==
    /\ ex = "binance"
    /\ ClientInit
    /\ book = NoMaps
    /\ last = NoMaps
    /\ snapshot = NoSnap
    /\ buffered = <<>>
    /\ received = <<>>
    /\ arg = Idle
    /\ ret = Idle
    /\ fees \in FeeDatas
    /\ seen = <<>>
    /\ currentPair = ""
    /\ liveReady = FALSE
    /\ costOn = "none"
    /\ hook = HookNew
    /\ ConverterNew

SeenContexts == {seen[k].ctx : k \in DOMAIN seen}

\* One call of calculateFeeRates on the loaded fee data.
EvaluateFees(ctx) ==
    LET r == CalculateFeeRates(fees, ctx)
    IN  /\ arg' = ctx
        /\ ret' = r.result
        /\ fees' = r.fees
        /\ seen' = IF ctx \in SeenContexts THEN seen
                   ELSE Append(seen, [ctx |-> ctx, result |-> r.result])
        /\ UNCHANGED <<clientVars, outVars, applyVars, replayVars, engineVars, converterVars>>

FeeNext ==
    \E ctx \in FeeContexts :
        /\ ctx \in SeenContexts \/ Len(seen) < MaxCalls
        /\ EvaluateFees(ctx)

SpecFee == FeeInit /\ [][FeeNext]_vars

Evaluated == arg # Idle

ModifierModes == {"override", "multiply", "add", "override_per_tier"}

\* The positions of the trail entries that modifiers wrote.
ModifierEntries(trail) == {k \in DOMAIN trail : trail[k].type \in ModifierModes}

MatchingModifiers(fd, ctx) ==
    {i \in DOMAIN fd.modifiers :
        Matches(fd.modifiers[i], ctx.pair, TierOf(fd, ctx), ctx.exec)}

\* The fee file and context of the documented example: tier taker 0.001,
\* one matching multiply-0.5 modifier, a 25% taker discount that requires
\* BNB, and a context that pays the fee in BNB.
IsExample(fd, ctx) ==
    /\ fd.modifiers = <<HalfModifier>>
    /\ Given(fd, "tokenDiscount") /\ fd.tokenDiscount = QuarterDiscount
    /\ ~Given(ctx, "userTier") /\ ~Given(ctx, "customFees")
    /\ Given(ctx, "feeAsset") /\ ctx.feeAsset = "bnb"

\* C17: without a custom rate the trail starts with the tier's taker rate,
\* continues with one entry per modifier applied, in the order of the fee
\* file (every matching modifier when none restricts stacking), ends with
\* the token discount's entry if and only if the discount applied, and the
\* final taker rate is the rate of the last entry; tier taker 0.001 with a
\* matching multiply-0.5 modifier gives 0.0005 and the 25% discount paid in
\* the required asset gives final taker 0.000375 with a trail of exactly 3
\* entries.
C17_FeeComposition ==
    (Evaluated /\ ~Given(arg, "customFees"))
    => LET trail == ret.feeRateAnalysis
           n == Len(trail)
           m == Cardinality(ModifierEntries(trail))
           discounted == trail[n].type = "token_discount"
           tier == TierOf(fees, arg)
       IN  /\ trail[1].type = "default" /\ trail[1].rate = Tiers[tier].taker
           /\ ModifierEntries(trail) = 2 .. (m + 1)
           /\ n = 1 + m + (IF discounted THEN 1 ELSE 0)
           /\ ret.final.taker = trail[n].rate
           /\ m <= Cardinality(MatchingModifiers(fees, arg))
           /\ (\A i \in DOMAIN fees.modifiers : ~Given(fees.modifiers[i], "stacking"))
                => m = Cardinality(MatchingModifiers(fees, arg))
           /\ \A k \in 2 .. (m + 1) : \A l \in 2 .. (m + 1) :
                  k < l => \E i \in DOMAIN fees.modifiers : \E j \in DOMAIN fees.modifiers :
                              /\ i < j
                              /\ trail[k].id[2] = fees.modifiers[i].id
                              /\ trail[l].id[2] = fees.modifiers[j].id
           /\ discounted =>
                /\ Given(fees, "tokenDiscount") /\ Given(arg, "feeAsset")
                /\ ToUpperCase(arg.feeAsset) = fees.tokenDiscount.requires.feeAsset
                /\ ret.final.taker
                     = DecMul(trail[n - 1].rate,
                              IF fees.tokenDiscount.type = "percentage"
                              THEN DecSub(DecOf(1), fees.tokenDiscount.value)
                              ELSE DecSub(DecOf(1),
                                          DecDiv(fees.tokenDiscount.value, DecOf(10000))))
           /\ IsExample(fees, arg) =>
                /\ n = 3
                /\ trail[2].rate = Dec(5, 10000)
                /\ ret.final.taker = Dec(375, 1000000)

\* The documented example was evaluated.
C17_Witness ==
    /\ Evaluated /\ IsExample(fees, arg)
    /\ Len(ret.feeRateAnalysis) = 3
    /\ ret.final.taker = Dec(375, 1000000)

\* C19: a call of calculateFeeRates leaves the fee data as it was, and its
\* result for a context evaluated before is the result of that first
\* evaluation (final rates, base and trail), whatever was evaluated in
\* between.
C19_FeeDeterminism ==
    [][/\ fees' = fees
       /\ \A k \in DOMAIN seen : seen[k].ctx = arg' => ret' = seen[k].result]_vars

\* The first context is evaluated again after a second one: its run wrote
\* a token discount into cur, and the second context was on the same tier.
C19_Witness ==
    /\ Len(seen) = 2 /\ arg = seen[1].ctx
    /\ ret.feeRateAnalysis[Len(ret.feeRateAnalysis)].type = "token_discount"
    /\ Len(ret.feeRateAnalysis) = 2
    /\ seen[2].result.base.tier = ret.base.tier
    /\ ret = seen[1].result

\* ---------------------------------------------------------------------
\* The fee scenario of BinanceAdapter.calculateCost: the standard rates in
\* the received asset and, with the token discount switched on and
\* !customFees, a scenario charged in BNB; the cost calculator uses
\* opts.feeScenario ?? { feeAsset, feeRates }.
AdapterContext(in, feeAsset) ==
    LET c0 == [pair |-> in.pair, exec |-> "taker", feeAsset |-> feeAsset]
        c1 == IF Given(in, "userTier") THEN c0 @@ ("userTier" :> in.userTier) ELSE c0
    IN  IF Given(in, "customFees") THEN c1 @@ ("customFees" :> in.customFees) ELSE c1

AdapterFeeAsset(in) ==
    IF in.orderSide = "buy" THEN ParsePair(in.pair).base ELSE ParsePair(in.pair).quote

\* Given the outcome `standard` of the first calculateFeeRates call: the
\* scenario the cost calculator is handed, and the fee data afterwards.
BinanceFeeScenario(standard, in) ==
    LET notCustom == ~Given(in, "customFees") \/ in.customFees = Zero
        inBnb == CalculateFeeRates(standard.fees, AdapterContext(in, "BNB"))
    IN  IF notCustom /\ in.tokenDiscount
        THEN [standardFeeRates |-> standard.result,
              scenario |-> [feeAsset |-> "BNB", feeRates |-> inBnb.result],
              fees |-> inBnb.fees]
        ELSE [standardFeeRates |-> standard.result,
              scenario |-> [feeAsset |-> AdapterFeeAsset(in),
                            feeRates |-> standard.result],
              fees |-> standard.fees]

AdapterInputs ==
    Optional(Optional(
        [pair : {"BTC/USDT", "ETH-BTC"}, orderSide : {"buy", "sell"},
         tokenDiscount : BOOLEAN],
        "userTier", {"VIP1"}),
        "customFees", {Zero, Dec(1, 100)})

AdapterFees ==
    /\ arg = Idle
    /\ \E in \in AdapterInputs :
       \E standard \in {CalculateFeeRates(fees, AdapterContext(in, AdapterFeeAsset(in)))} :
       \E r \in {BinanceFeeScenario(standard, in)} :
          /\ arg' = in
          /\ ret' = [standardFeeRates |-> r.standardFeeRates, scenario |-> r.scenario]
          /\ fees' = r.fees
    /\ UNCHANGED <<clientVars, outVars, applyVars, replayVars, engineVars, seen, converterVars>>

ScenarioNext == AdapterFees

SpecFeeScenario == FeeInit /\ [][ScenarioNext]_vars

\* What a custom rate leaves of a result: both final rates are the rate and
\* the trail holds the tier entry and the custom entry, nothing else.
OnlyCustom(result, rate) ==
    /\ result.final.maker = rate /\ result.final.taker = rate
    /\ Len(result.feeRateAnalysis) = 2
    /\ result.feeRateAnalysis[1].type = "default"
    /\ result.feeRateAnalysis[2].type = "custom"
    /\ result.feeRateAnalysis[2].rate = rate

\* C18: when a custom rate is given to the adapter, 0 included, the standard
\* rates and the rates of the scenario the cost calculator charges both have
\* final maker = final taker = the custom rate, the rate charged is the
\* custom rate, and no modifier and no discount appears in either trail.
C18_CustomOverride ==
    (Evaluated /\ Given(arg, "customFees"))
    => /\ OnlyCustom(ret.standardFeeRates, arg.customFees)
       /\ OnlyCustom(ret.scenario.feeRates, arg.customFees)
       /\ EffRate(ret.scenario.feeRates) = arg.customFees

\* A custom rate of 0 with the token discount switched on, on a fee file
\* whose modifier matches and whose discount would apply: the scenario is
\* charged in BNB at the custom rate 0.
C18_Witness ==
    /\ Evaluated /\ Given(arg, "customFees") /\ arg.customFees = Zero
    /\ arg.tokenDiscount /\ ret.scenario.feeAsset = "BNB"
    /\ Given(fees, "tokenDiscount")
    /\ MatchingModifiers(fees, AdapterContext(arg, "BNB")) # {}
    /\ ret.scenario.feeRates.final.taker = Zero

\* ---------------------------------------------------------------------
\* bucketizeOrderBook applied to its own result.  The books are any rows,
\* in any order, a price twice and a zero quantity included; tick 0 stands
\* for a missing tick.
BucketLevels ==
    [price : 1 .. MaxBucketPrice, quantity : 0 .. MaxCostQty]

BucketSides == UNION {[1 .. k -> BucketLevels] : k \in 0 .. MaxBucketLevels}

\* A negative tick beside the ticks from 0 (no tick) up.
BucketTicks == {0 - 1} \cup Ticks

BucketInputs == [book : [bids : BucketSides, asks : BucketSides], tick : BucketTicks]

Rebucketize ==
    /\ arg = Idle
    /\ \E in \in BucketInputs :
          LET once == BucketizeOrderBook(in.book, in.tick)
          IN  /\ arg' = in
              /\ ret' = [once |-> once, twice |-> BucketizeOrderBook(once, in.tick)]
    /\ UNCHANGED <<clientVars, outVars, applyVars, replayVars, engineVars, fees, seen, converterVars>>

BucketNext == Rebucketize

SpecBucket == PureInit /\ [][BucketNext]_vars

\* C20: bucketizing a bucketized book again at the same tick returns it
\* unchanged: the same levels with the same quantities in the same order, on
\* both sides.
C20_BucketizeIdempotent == Evaluated => ret.twice = ret.once

\* The first pass merged two bid levels into one bucket and put the asks in
\* ascending order, and the second pass had that book to work on.
C20_Witness ==
    /\ Evaluated /\ arg.tick = MaxTick
    /\ Len(arg.book.bids) = 2 /\ Len(ret.once.bids) = 1
    /\ Len(ret.once.asks) = 2 /\ arg.book.asks[1].price > arg.book.asks[2].price
    /\ ret.once # arg.book
    /\ ret.twice = ret.once

\* ---------------------------------------------------------------------
\* calculateRankedExchanges.  A number of a breakdown is written as the
\* count k of steps of 4e-10 by which it lies above 1 (a slippage rate or a
\* fee: above 0), so that the tolerance of checkIfAlmostEqual,
\* 1e-9 * max(1, min(|a|, |b|)), is 2.5 steps for every pair of numbers
\* compared here: two numbers are almost equal iff they are at most
\* RankTolerance steps apart.  The quotient (1 + s*h) / (1 + n*h) is
\* 1 + (s - n)*h up to n*(s - n)*h*h < 1e-17, far below a step.
RankTolerance == 2

ExchangeIds == {"Binance", "Bybit", "OKX"}

NoBreakdown == [missing |-> TRUE]

Infinite == [inf |-> TRUE, v |-> 0]

Finite(k) == [inf |-> FALSE, v |-> k]

\* effectivePrice(bd): USD per base received on a buy, minus quote per base
\* on a sell, +Infinity when the breakdown has no USD rate.  The fee asset
\* of the breakdowns ranked here is the base or the quote asset.
EffectivePrice(bd, side) ==
    IF ~bd.priced THEN Infinite
    ELSE IF side = "buy"
         THEN Finite(bd.totalTradeUsd - bd.netBaseReceived)
         ELSE Finite(bd.totalBase - bd.netQuoteReceived)

CheckIfAlmostEqual(a, b) == Abs(a - b) <= RankTolerance

\* checkIfAlmostEqual on two effective prices: with an infinite one the
\* difference is Infinity or NaN and the test is false.
PricesAlmostEqual(a, b) ==
    /\ ~a.inf /\ ~b.inf
    /\ CheckIfAlmostEqual(a.v, b.v)

\* a - b on two effective prices, as the sort reads it: NaN counts as 0.
PriceDifference(a, b) ==
    IF a.inf /\ b.inf THEN 0
    ELSE IF a.inf THEN 1
    ELSE IF b.inf THEN 0 - 1
    ELSE a.v - b.v

TieBreak(A, B, side) ==
    IF ~CheckIfAlmostEqual(A.slippage, B.slippage) THEN A.slippage - B.slippage
    ELSE IF ~CheckIfAlmostEqual(A.feeUsd, B.feeUsd) THEN A.feeUsd - B.feeUsd
    ELSE IF side = "buy" THEN A.averagePrice - B.averagePrice
    ELSE B.averagePrice - A.averagePrice

Cmp(A, B, side) ==
    LET a == EffectivePrice(A, side)
        b == EffectivePrice(B, side)
    IN  IF ~PricesAlmostEqual(a, b) THEN PriceDifference(a, b)
        ELSE IF side = "buy"
             THEN IF ~CheckIfAlmostEqual(A.totalTradeUsd, B.totalTradeUsd)
                  THEN A.totalTradeUsd - B.totalTradeUsd
                  ELSE IF ~CheckIfAlmostEqual(A.netBaseReceived, B.netBaseReceived)
                       THEN B.netBaseReceived - A.netBaseReceived
                       ELSE TieBreak(A, B, side)
             ELSE IF ~CheckIfAlmostEqual(A.totalBase, B.totalBase)
                  THEN A.totalBase - B.totalBase
                  ELSE IF ~CheckIfAlmostEqual(A.totalReceivedUsd, B.totalReceivedUsd)
                       THEN B.totalReceivedUsd - A.totalReceivedUsd
                       ELSE TieBreak(A, B, side)

\* valid: the selected ids, in the order selected, that have a breakdown and
\* no error.
RECURSIVE ValidOf(_, _, _)
ValidOf(selected, costBreakdownMap, errors) ==
    IF selected = <<>> THEN <<>>
    ELSE LET id   == Head(selected)
             rest == ValidOf(Tail(selected), costBreakdownMap, errors)
         IN  IF costBreakdownMap[id] # NoBreakdown /\ id \notin errors
             THEN <<[id |-> id, bd |-> costBreakdownMap[id]]>> \o rest
             ELSE rest

\* valid.sort(cmp): a stable sort, each entry placed after the last entry
\* it does not precede.
RECURSIVE InsertRanked(_, _, _)
InsertRanked(sorted, x, side) ==
    IF sorted = <<>> THEN <<x>>
    ELSE LET n == Len(sorted)
         IN  IF Cmp(x.bd, sorted[n].bd, side) >= 0
             THEN Append(sorted, x)
             ELSE Append(InsertRanked(SubSeq(sorted, 1, n - 1), x, side), sorted[n])

RECURSIVE SortRanked(_, _)
SortRanked(valid, side) ==
    IF valid = <<>> THEN <<>>
    ELSE LET n == Len(valid)
         IN  InsertRanked(SortRanked(SubSeq(valid, 1, n - 1), side), valid[n], side)

CalculateRankedExchanges(in) ==
    LET valid == ValidOf(in.selected, in.costBreakdownMap, in.errors)
        sorted == SortRanked(valid, in.side)
    IN  [k \in DOMAIN sorted |-> sorted[k].id]

\* Breakdowns of a buy and of a sell whose numbers lie on a few rungs, and
\* one breakdown without a USD rate.
MaxRankRung == 2

RankRungs == {2 * k : k \in 0 .. MaxRankRung}

RankBreakdowns(side) ==
    {[priced |-> TRUE,
      totalTradeUsd |-> IF side = "buy" THEN s ELSE 0,
      netBaseReceived |-> IF side = "buy" THEN n ELSE 0,
      totalBase |-> IF side = "buy" THEN 0 ELSE n,
      netQuoteReceived |-> IF side = "buy" THEN 0 ELSE s,
      totalReceivedUsd |-> IF side = "buy" THEN 0 ELSE s,
      slippage |-> sl, feeUsd |-> 0, averagePrice |-> p] :
        s \in RankRungs, n \in {0, 2}, sl \in {0, 3}, p \in {0, 1}}
    \cup {[priced |-> FALSE, totalTradeUsd |-> 0, netBaseReceived |-> 0,
           totalBase |-> 0, netQuoteReceived |-> 0, totalReceivedUsd |-> 0,
           slippage |-> 0, feeUsd |-> 0, averagePrice |-> 0]}

RankSelections ==
    {<<"Binance", "Bybit", "OKX">>, <<"OKX", "Bybit", "Binance">>,
     <<"Bybit", "OKX">>, <<"Binance">>}

RankInputs ==
    UNION {[selected : RankSelections,
            side : {side},
            costBreakdownMap : [ExchangeIds -> RankBreakdowns(side) \cup {NoBreakdown}],
            errors : {{}, {"OKX"}}] : side \in {"buy", "sell"}}

Rank ==
    /\ arg = Idle
    /\ \E in \in RankInputs :
          /\ arg' = in
          /\ ret' = [order |-> CalculateRankedExchanges(in),
                     again |-> CalculateRankedExchanges(in)]
    /\ UNCHANGED <<clientVars, outVars, applyVars, replayVars, engineVars, fees, seen, converterVars>>

RankNext == Rank

SpecRank == PureInit /\ [][RankNext]_vars

ValidIds(in) ==
    {id \in ExchangeIds :
        /\ \E k \in DOMAIN in.selected : in.selected[k] = id
        /\ in.costBreakdownMap[id] # NoBreakdown
        /\ id \notin in.errors}

Sign(x) == IF x < 0 THEN 0 - 1 ELSE IF x > 0 THEN 1 ELSE 0

\* C21: the ranking is a permutation of exactly the selected exchanges that
\* have a breakdown and no error; the comparator leaves no two distinct
\* breakdowns tied, is antisymmetric and is transitive; and ranking the same
\* input again yields the same order.
C21_RankingTotalOrder ==
    Evaluated =>
        LET valid == ValidIds(arg)
            bd(id) == arg.costBreakdownMap[id]
            c(x, y) == Cmp(bd(x), bd(y), arg.side)
        IN  /\ Len(ret.order) = Cardinality(valid)
            /\ {ret.order[k] : k \in DOMAIN ret.order} = valid
            /\ \A x, y \in valid : bd(x) # bd(y) => c(x, y) # 0
            /\ \A x, y \in valid : Sign(c(x, y)) = 0 - Sign(c(y, x))
            /\ \A x, y, z \in valid : (c(x, y) < 0 /\ c(y, z) < 0) => c(x, z) < 0
            /\ ret.again = ret.order

\* ---------------------------------------------------------------------
\* USDConverter: convert, getPriceInfo, clearCache and the price sources'
\* answers.  A price-source answer settles api.fetchPrice; the continuations
\* it wakes (the creator's finally, then every awaiting call) run before any
\* other task and are part of the same step.  Time is counted in units of
\* which the constructor's cacheTtlMs is CacheTtlMs.
CacheTtlMs == 2
MaxNow == 4
MaxConvertCalls == 3
MaxFetches == 2
MaxApiPrice == 3

STABLECOINS == {"USD", "USDT", "USDC"}

Apis == <<"cryptocompare", "coingecko">>

ApiPrices == 2 .. MaxApiPrice

ConvertAssets == {"btc", "USDT"}

ConvertAmounts == {2}

\* What the store holds under the converter's key: nothing, a text that is
\* not JSON, or JSON: a value that is no object, or an object whose ts is a
\* number or not, with or without a data key, whose data is a number or a
\* text that is no number.
StoredObjects ==
    [type : {"object"}, tsNumeric : BOOLEAN, ts : {0, CacheTtlMs},
     dataKind : {"absent", "number", "text"}, data : {MaxApiPrice},
     source : {"coingecko"}]

StoredValues ==
    {[kind |-> "missing"], [kind |-> "unparsable"],
     [kind |-> "json", value |-> [type |-> "scalar"]]}
    \cup {[kind |-> "json", value |-> o] : o \in StoredObjects}

NullValue == [type |-> "null"]

ReadJSONFromLocalStorage(symbol) ==
    LET raw == localStorage[symbol]
    IN  IF raw.kind = "json" THEN raw.value ELSE NullValue

ReadCacheEntryFromLocalStorage(symbol) ==
    LET v == ReadJSONFromLocalStorage(symbol)
    IN  IF v.type = "object" /\ v.tsNumeric /\ v.dataKind # "absent"
        THEN v ELSE NullValue

IsFresh(ts, maxAgeMs) == now - ts < maxAgeMs

\* writeCacheEntryToLocalStorage(key, price.toNumber(), { source })
CacheEntryWritten(price, source) ==
    [kind |-> "json",
     value |-> [type |-> "object", tsNumeric |-> TRUE, ts |-> now,
                dataKind |-> "number", data |-> price, source |-> source]]

MemoryFresh(symbol) ==
    /\ symbol \in ConverterSymbols
    /\ priceCache[symbol] # NoEntry
    /\ priceCache[symbol].expires > now

PendingFor(symbol) ==
    {k \in DOMAIN fetches : fetches[k].symbol = symbol /\ fetches[k].status = "pending"}

\* The mutant of JoinsInflight: fetchUSDPrice without its first statement.
NeverJoins(symbol) == FALSE

\* fetchUSDPrice: hasOwnProperty(this.inflightRequests, key)
JoinsInflight(symbol) == inflightRequests[symbol] # 0

NewCall(kind, asset, amount) ==
    [kind |-> kind, asset |-> asset, amount |-> amount, at |-> now,
     memFresh |-> MemoryFresh(ToUpperCase(asset)),
     stored |-> IF ToUpperCase(asset) \in ConverterSymbols
                THEN localStorage[ToUpperCase(asset)] ELSE [kind |-> "missing"],
     during |-> PendingFor(ToUpperCase(asset)),
     joined |-> 0, status |-> "waiting", value |-> 0, cause |-> "none"]

Returned(call, value, cause) ==
    [call EXCEPT !.status = "returned", !.value = value, !.cause = cause]

Thrown(call, cause) == [call EXCEPT !.status = "threw", !.cause = cause]

\* fetchUSDPrice(symbol) up to its await: join the promise in flight, or
\* create one, which asks the first price source, and register it.
FetchUSDPrice(call, symbol) ==
    IF JoinsInflight(symbol)
    THEN LET k == inflightRequests[symbol]
         IN  /\ calls' = Append(calls, [call EXCEPT !.joined = k])
             /\ fetches' = [fetches EXCEPT ![k].waiters = Append(@, Len(calls) + 1)]
             /\ UNCHANGED inflightRequests
    ELSE /\ Len(fetches) < MaxFetches
         /\ calls' = Append(calls, [call EXCEPT !.joined = Len(fetches) + 1])
         /\ fetches' = Append(fetches,
                [symbol |-> symbol, api |-> 1, status |-> "pending", price |-> 0,
                 source |-> "", queried |-> <<[api |-> Apis[1], ok |-> FALSE]>>,
                 waiters |-> <<Len(calls) + 1>>])
         /\ inflightRequests' = [inflightRequests EXCEPT ![symbol] = Len(fetches) + 1]

\* The cache lookups that convert and getPriceInfo share: the in-memory
\* entry, then the stored one, then fetchUSDPrice.  new Decimal(data) throws
\* on a text that is no number.
Lookup(call, symbol, unit) ==
    LET mem == priceCache[symbol]
        cached == ReadCacheEntryFromLocalStorage(symbol)
    IN  IF MemoryFresh(symbol)
        THEN /\ calls' = Append(calls, Returned(call, unit * mem.usd, "memory"))
             /\ UNCHANGED <<priceCache, inflightRequests, fetches>>
        ELSE IF cached # NullValue /\ IsFresh(cached.ts, CacheTtlMs)
        THEN IF cached.dataKind = "number"
             THEN /\ priceCache' = [priceCache EXCEPT ![symbol] =
                        [usd |-> cached.data, expires |-> cached.ts + CacheTtlMs,
                         source |-> cached.source]]
                  /\ calls' = Append(calls, Returned(call, unit * cached.data, "storage"))
                  /\ UNCHANGED <<inflightRequests, fetches>>
             ELSE /\ calls' = Append(calls, Thrown(call, "decimal"))
                  /\ UNCHANGED <<priceCache, inflightRequests, fetches>>
        ELSE /\ FetchUSDPrice(call, symbol)
             /\ UNCHANGED priceCache

Convert(asset, amount) ==
    LET symbol == ToUpperCase(asset)
        call == NewCall("convert", asset, amount)
    IN  /\ Len(calls) < MaxConvertCalls
        /\ IF symbol \in STABLECOINS
           THEN /\ calls' = Append(calls, Returned(call, amount, "stable"))
                /\ UNCHANGED <<priceCache, inflightRequests, fetches>>
           ELSE Lookup(call, symbol, amount)
        /\ UNCHANGED <<localStorage, now>>
        /\ UNCHANGED <<clientVars, outVars, applyVars, replayVars, engineVars,
                       arg, ret, fees, seen>>

GetPriceInfo(asset) ==
    LET symbol == ToUpperCase(asset)
        call == NewCall("getPriceInfo", asset, 1)
    IN  /\ Len(calls) < MaxConvertCalls
        /\ symbol \in ConverterSymbols
        /\ Lookup(call, symbol, 1)
        /\ UNCHANGED <<localStorage, now>>
        /\ UNCHANGED <<clientVars, outVars, applyVars, replayVars, engineVars,
                       arg, ret, fees, seen>>

\* The continuation of one awaiting call once its fetch has settled into f:
\* convert caches the price in both tiers and returns, or rethrows;
\* getPriceInfo returns the price, or rethrows.  st holds the caches and the
\* calls as the continuations before it left them.
ResumeCall(st, c, f) ==
    LET call == st.calls[c]
        symbol == f.symbol
    IN  IF f.status = "rejected"
        THEN [st EXCEPT !.calls[c] = Thrown(call, "fetch")]
        ELSE IF call.kind = "convert"
        THEN [st EXCEPT
                !.priceCache[symbol] = [usd |-> f.price,
                                        expires |-> call.at + CacheTtlMs,
                                        source |-> f.source],
                !.localStorage[symbol] = CacheEntryWritten(f.price, f.source),
                !.calls[c] = Returned(call, call.amount * f.price, "fetch")]
        ELSE [st EXCEPT !.calls[c] = Returned(call, f.price, "fetch")]

RECURSIVE ResumeAll(_, _, _)
ResumeAll(st, waiters, f) ==
    IF waiters = <<>> THEN st
    ELSE ResumeAll(ResumeCall(st, Head(waiters), f), Tail(waiters), f)

\* The mutant of AfterFailure: the loop over the sources left at the first
\* failure.
RejectOnFirstFailure(f) == [f EXCEPT !.status = "rejected"]

\* The catch of the loop over this.apis: the next source is asked, and
\* after the last one the promise is rejected.
AfterFailure(f) ==
    IF f.api < Len(Apis)
    THEN [f EXCEPT !.api = @ + 1,
                   !.queried = Append(@, [api |-> Apis[f.api + 1], ok |-> FALSE])]
    ELSE [f EXCEPT !.status = "rejected"]

AfterSuccess(f, price) ==
    [f EXCEPT !.status = "resolved", !.price = price, !.source = Apis[f.api],
              !.queried[Len(f.queried)].ok = TRUE]

\* The source that fetch k awaits answers.  When that settles the fetch,
\* the creator's finally deletes the key and the awaiting calls resume in
\* the order in which they began to wait.
Settle(k, f) ==
    IF f.status = "pending"
    THEN /\ fetches' = [fetches EXCEPT ![k] = f]
         /\ UNCHANGED <<priceCache, inflightRequests, localStorage, calls>>
    ELSE LET st == ResumeAll([priceCache |-> priceCache,
                              localStorage |-> localStorage,
                              calls |-> calls], f.waiters, f)
         IN  /\ fetches' = [fetches EXCEPT ![k] = f]
             /\ inflightRequests' = [inflightRequests EXCEPT ![f.symbol] = 0]
             /\ priceCache' = st.priceCache
             /\ localStorage' = st.localStorage
             /\ calls' = st.calls

ApiFails(k) ==
    /\ k \in DOMAIN fetches
    /\ fetches[k].status = "pending"
    /\ Settle(k, AfterFailure(fetches[k]))
    /\ UNCHANGED now
    /\ UNCHANGED <<clientVars, outVars, applyVars, replayVars, engineVars,
                   arg, ret, fees, seen>>

ApiAnswers(k, price) ==
    /\ k \in DOMAIN fetches
    /\ fetches[k].status = "pending"
    /\ Settle(k, AfterSuccess(fetches[k], price))
    /\ UNCHANGED now
    /\ UNCHANGED <<clientVars, outVars, applyVars, replayVars, engineVars,
                   arg, ret, fees, seen>>

ClearCache(symbol) ==
    /\ priceCache[symbol] # NoEntry \/ localStorage[symbol].kind # "missing"
    /\ priceCache' = [priceCache EXCEPT ![symbol] = NoEntry]
    /\ localStorage' = [localStorage EXCEPT ![symbol] = [kind |-> "missing"]]
    /\ UNCHANGED <<inflightRequests, fetches, calls, now>>
    /\ UNCHANGED <<clientVars, outVars, applyVars, replayVars, engineVars,
                   arg, ret, fees, seen>>

ClockAdvances ==
    /\ now < MaxNow
    /\ now' = now + 1
    /\ UNCHANGED <<priceCache, inflightRequests, localStorage, fetches, calls>>
    /\ UNCHANGED <<clientVars, outVars, applyVars, replayVars, engineVars,
                   arg, ret, fees, seen>>

ConvertInit ==
    /\ ex = "binance"
    /\ ClientInit
    /\ book = NoMaps
    /\ last = NoMaps
    /\ snapshot = NoSnap
    /\ buffered = <<>>
    /\ received = <<>>
    /\ arg = Idle
    /\ ret = Idle
    /\ fees = Idle
    /\ seen = <<>>
    /\ currentPair = ""
    /\ liveReady = FALSE
    /\ costOn = "none"
    /\ hook = HookNew
    /\ priceCache = [s \in ConverterSymbols |-> NoEntry]
    /\ inflightRequests = [s \in ConverterSymbols |-> 0]
    /\ localStorage \in [ConverterSymbols -> StoredValues]
    /\ fetches = <<>>
    /\ calls = <<>>
    /\ now = CacheTtlMs

ConvertNext ==
    \/ \E asset \in ConvertAssets, amount \in ConvertAmounts : Convert(asset, amount)
    \/ \E asset \in ConvertAssets : GetPriceInfo(asset)
    \/ \E k \in 1 .. MaxFetches : ApiFails(k)
    \/ \E k \in 1 .. MaxFetches, price \in ApiPrices : ApiAnswers(k, price)
    \/ \E symbol \in ConverterSymbols : ClearCache(symbol)
    \/ ClockAdvances

SpecConvert == ConvertInit /\ [][ConvertNext]_vars

ConvertCalls == {c \in DOMAIN calls : calls[c].kind = "convert"}

Priced(c) == ToUpperCase(calls[c].asset) \notin STABLECOINS

\* C22: at most one sequence of price-source requests is in flight per
\* asset, and a convert call issued while one is in flight waits for that
\* sequence and receives its result (the amount times its price) or its
\* failure.
C22_Coalesced ==
    /\ \A s \in ConverterSymbols : Cardinality(PendingFor(s)) <= 1
    /\ \A c \in ConvertCalls :
          calls[c].during # {} =>
             \E k \in calls[c].during :
                /\ fetches[k].status = "pending" => calls[c].status = "waiting"
                /\ fetches[k].status = "resolved" =>
                      /\ calls[c].status = "returned"
                      /\ calls[c].value = calls[c].amount * fetches[k].price
                /\ fetches[k].status = "rejected" => calls[c].status = "threw"

\* Two convert calls waited on one sequence, the second issued while it was
\* in flight, and both returned the amount times the price it fetched.
C22_Witness ==
    \E k \in DOMAIN fetches :
        /\ fetches[k].status = "resolved"
        /\ Len(fetches[k].waiters) >= 2
        /\ \A i \in DOMAIN fetches[k].waiters :
              LET c == fetches[k].waiters[i]
              IN  /\ calls[c].kind = "convert"
                  /\ calls[c].status = "returned"
                  /\ calls[c].value = calls[c].amount * fetches[k].price
        /\ calls[fetches[k].waiters[2]].during = {k}

\* The call found no fresh entry: none fresh in memory, and under the key
\* no object with a numeric timestamp younger than the TTL.
NoFreshEntry(call) ==
    /\ ~call.memFresh
    /\ ~ /\ call.stored.kind = "json"
         /\ call.stored.value.type = "object"
         /\ call.stored.value.tsNumeric
         /\ call.at - call.stored.value.ts < CacheTtlMs

HasConvertWaiter(f) ==
    \E i \in DOMAIN f.waiters : calls[f.waiters[i]].kind = "convert"

AbsentOrCorrupt(stored) ==
    \/ stored.kind \in {"missing", "unparsable"}
    \/ /\ stored.kind = "json"
       /\ \/ stored.value.type # "object"
          \/ ~stored.value.tsNumeric
          \/ stored.value.dataKind \in {"absent", "text"}

\* C24: a convert of a non-stablecoin asset that finds nothing fresh in
\* memory and an absent or corrupt stored entry goes on to the price sources
\* as if nothing were stored, and throws nothing because of the entry.
C24_CorruptIsMiss ==
    \A c \in ConvertCalls :
        (Priced(c) /\ ~calls[c].memFresh /\ AbsentOrCorrupt(calls[c].stored)) =>
            /\ calls[c].joined # 0
            /\ calls[c].cause # "decimal"

\* ------------------------------------------- the depth stream, with ranges
\* A second specification of the book clients for the claims about the diff
\* stream itself: the buffer holds more than one diff, a Binance diff covers
\* a range U..u of update ids, and what a snapshot and a diff hold is what the
\* venue's book held at those ids, so that a book can be compared with the
\* one the venue had.
MaxDepthBuffered == 2
MaxDepthId == 3
MaxReceived == 3

\* The venue's update k sets the bid at price 1 to k % 2 (0 deletes it).
DepthQty(k) == k % 2

\* The rows of the updates U..u, in order.
DepthRows(U, u) == [i \in 1 .. (u - U + 1) |-> Row(1, DepthQty(U + i - 1))]

\* The diff the venue sends for the updates U..u (Bybit, OKX and Coinbase
\* send one update per message: U = u).
DepthDiff(U, u) ==
    IF ex = "binance" THEN [U |-> U, u |-> u, b |-> DepthRows(U, u), a |-> <<>>]
    ELSE IF ex = "bybit" THEN [seq |-> u, ts |-> 0, b |-> DepthRows(u, u), a |-> <<>>]
    ELSE IF ex = "okx" THEN [ts |-> u, b |-> DepthRows(u, u), a |-> <<>>]
    ELSE [changes |-> Changes([b |-> DepthRows(u, u), a |-> <<>>])]

DepthDiffs ==
    {DepthDiff(r[1], r[2]) :
        r \in {x \in (1 .. MaxDepthId) \X (1 .. MaxDepthId) :
                  IF ex = "binance" THEN x[1] <= x[2] ELSE x[1] = x[2]}}

\* The snapshot of the venue's book as of update L.
DepthSnapshot(L) ==
    [bids |-> IF DepthQty(L) > 0 THEN <<Row(1, DepthQty(L))>> ELSE <<>>,
     asks |-> <<>>,
     marker |-> IF ex = "coinbase" THEN Null ELSE L]

DepthOutcomes ==
    {[kind |-> "ok", snap |-> DepthSnapshot(L)] : L \in 0 .. MaxDepthId}
        \cup {[kind |-> "fail", snap |-> NoSnap]}

DepthInit ==
    /\ ex \in Exchanges
    /\ opts = [maxBufferedDiffs |-> MaxDepthBuffered]
    /\ ClientNew
    /\ book = NoMaps
    /\ last = NoMaps
    /\ snapshot = NoSnap
    /\ buffered = <<>>
    /\ received = <<>>
    /\ arg = Idle
    /\ ret = Idle
    /\ fees = Idle
    /\ seen = <<>>
    /\ currentPair = ""
    /\ liveReady = FALSE
    /\ costOn = "none"
    /\ hook = HookNew
    /\ ConverterNew

\* onMessage for a diff of the watched pair, the diff recorded in the history.
DepthDiffMessage(s, d) ==
    /\ ws = "open"
    /\ s \in Watched
    /\ Len(received) < MaxReceived
    /\ CommitClient(OnDiff(Cur, s, d))
    /\ received' = Append(received, d)
    /\ UNCHANGED <<applyVars, snapshot, buffered, pureVars>>
    /\ Quiet

\* The REST call of a resync returns (or fails).
DepthResyncDone(s, outcome) ==
    /\ inflight[s] > 0
    /\ Commit(ResyncResume(Cur, s, outcome))
    /\ Quiet

DepthNext ==
    \/ \E s \in Symbols : WatchPair(s)
    \/ OnUpdate
    \/ OnOpen
    \/ OnClose(1006)
    \/ ReconnectStart
    \/ ReconnectConnect
    \/ \E s \in Symbols : \E o \in DepthOutcomes : DepthResyncDone(s, o)
    \/ \E s \in Symbols : \E d \in DepthDiffs : DepthDiffMessage(s, d)
    \/ \E s \in Symbols : EmitTick(s)
    \/ \E s \in Symbols : \E a \in BOOLEAN : ResubscribeFire(s, a)
    \/ \E s \in Symbols : SyncTimerFire(s)
    \/ \E s \in Symbols : OrphanTimerFire(s)

SpecDepth == DepthInit /\ [][DepthNext]_vars

\* ---------------------------------------------------------------- C25
\* The three cases of a Binance diff that arrives on a synchronized pair.
\* No diff has been applied since the snapshot and the diff straddles
\* lastUpdateId + 1:
Bridges(st, d) ==
    /\ ~st.applied
    /\ d.U <= st.lastUpdateId + 1
    /\ st.lastUpdateId + 1 <= d.u

\* its first id is the successor of the last id applied:
Succeeds(st, d) == st.lastEventU # Null /\ d.U = st.lastEventU + 1

\* or it ends at or before the last id applied:
AlreadyCovered(st, d) == st.lastEventU # Null /\ d.u <= st.lastEventU

Synchronized(st) == ~st.syncing /\ st.lastUpdateId # Null

\* C25: a Binance diff that reaches a synchronized pair changes the book only
\* if it bridges the snapshot (U <= lastUpdateId + 1 <= u, no diff applied
\* since the snapshot) or starts at the successor of the last applied u; a
\* diff that ends at or before the last applied u leaves the state as it
\* was; any other diff leaves the book as it was, sets syncing and starts a
\* resync.
C25_DiffAcceptance ==
    [][\A s \in Symbols : \A d \in DepthDiffs :
          (/\ ex = "binance"
           /\ s \in Watched
           /\ Synchronized(states[s])
           /\ DepthDiffMessage(s, d))
          => LET st == states[s]
                 st2 == states'[s]
                 same == st2.bids = st.bids /\ st2.asks = st.asks
                            /\ st2.lastEventU = st.lastEventU
             IN  /\ ~same => (Bridges(st, d) \/ Succeeds(st, d))
                 /\ AlreadyCovered(st, d) => st2 = st /\ inflight' = inflight
                 /\ (~Bridges(st, d) /\ ~Succeeds(st, d) /\ ~AlreadyCovered(st, d))
                       => /\ same
                          /\ st2.syncing
                          /\ inflight'[s] > inflight[s]]_vars

\* A diff that was neither the bridge nor the successor has forced a resync:
\* the pair is syncing again, the diff waits in the buffer.
C25_Witness ==
    /\ ex = "binance"
    /\ \E s \in Watched :
          LET st == states[s] IN
          /\ st.syncing
          /\ st.applied
          /\ st.lastEventU # Null
          /\ st.buffer # <<>>
          /\ st.buffer[Len(st.buffer)].U > st.lastEventU + 1
          /\ st.buffer[Len(st.buffer)] = received[Len(received)]
          /\ inflight[s] > 0

\* ---------------------------------------------------------------- C27
\* C27: after every step the buffer of a watched symbol holds at most
\* maxBufferedDiffs (maxBufferedUpdates) entries, and a message that is
\* buffered when the buffer is full leaves the buffer without its first
\* (oldest) entry and with the message at the end.  (A handler that changes a
\* full buffer either pushed the message or emptied the buffer.)
C27_BufferBounded ==
    [][\A s \in Symbols :
          /\ s \in DOMAIN states' => Len(states'[s].buffer) <= opts.maxBufferedDiffs
          /\ \A d \in DepthDiffs :
                (/\ DepthDiffMessage(s, d)
                 /\ Len(states[s].buffer) = opts.maxBufferedDiffs
                 /\ states'[s].buffer # states[s].buffer
                 /\ states'[s].buffer # <<>>)
                => states'[s].buffer = Append(Tail(states[s].buffer), d)]_vars

\* Three diffs were buffered in a buffer of two: the first one is gone.
C27_Witness ==
    \E s \in Watched :
        /\ Len(received) = MaxDepthBuffered + 1
        /\ Len(states[s].buffer) = opts.maxBufferedDiffs
        /\ states[s].buffer = SubSeq(received, 2, Len(received))

\* ---------------------------------------------------------------- C28
\* C28: a book reaches the listeners only in a tick of the emit interval of a
\* symbol whose dirty flag was set; after a tick the flag is clear; a tick
\* that finds the flag clear emits nothing and changes nothing.  Hence the
\* diffs applied between two ticks, however many, cause one emission at most.
C28_EmitOnlyWhenDirty ==
    [][/\ emitted'.present => \E s \in Symbols : EmitTick(s) /\ states[s].dirty
       /\ \A s \in Symbols :
             EmitTick(s) => /\ ~states'[s].dirty
                            /\ ~states[s].dirty => ~emitted'.present /\ states' = states]_vars

\* A tick has just delivered the book after two diffs arrived, and cleared
\* the flag.
C28_Witness ==
    /\ emitted.present
    /\ Len(received) >= 2
    /\ \A s \in Watched : ~states[s].dirty

\* ---------------------------------------------------------------- C30
\* The Binance client with the one way the adapter has of starting two
\* resyncs on one BookState: watchLivePair(s), unwatchLivePair() and
\* watchLivePair(s) again before the socket has opened.  The second
\* watchPair finds connect() resolved and starts its resync; onopen resumes
\* the first watchPair, which starts another on the same BookState.
RaceInit == DepthInit /\ ex = "binance"

\* adapter.unwatchLivePair() while the socket is still connecting and no
\* resync of the pair awaits its snapshot: the BookState is dropped, and the
\* history with it.  (Spec has unwatchLivePair at any moment.)
RaceUnwatch(s) ==
    /\ currentPair = s
    /\ ws = "connecting"
    /\ inflight[s] = 0
    /\ CommitClient(UnwatchPair(Cur, s))
    /\ received' = <<>>
    /\ UNCHANGED <<applyVars, snapshot, buffered, pureVars>>
    /\ QuietNotReady

RaceNext ==
    \/ \E s \in Symbols : WatchPair(s)
    \/ \E s \in Symbols : RaceUnwatch(s)
    \/ OnOpen
    \/ \E s \in Symbols : \E o \in DepthOutcomes : DepthResyncDone(s, o)
    \/ \E s \in Symbols : \E d \in DepthDiffs : DepthDiffMessage(s, d)

SpecRace == RaceInit /\ [][RaceNext]_vars

\* The bids of the venue's book as of update k.
VenueBids(k) ==
    IF DepthQty(k) > 0 THEN MapSet(EmptyMap, 1, DepthQty(k)) ELSE EmptyMap

\* The socket delivered the venue's updates from the first one on, none
\* missing, none twice.
ContiguousFromOne(h) ==
    \A i \in 1 .. Len(h) : h[i].U = IF i = 1 THEN 1 ELSE h[i - 1].u + 1

LastReceived == IF received = <<>> THEN 0 ELSE received[Len(received)].u

\* The snapshot as of lastUpdateId with every received diff beyond it applied
\* contiguously, for a contiguous history: the venue's book as of the later
\* of the two ids.
SnapshotPlusReceived(st) ==
    VenueBids(IF st.lastUpdateId > LastReceived THEN st.lastUpdateId ELSE LastReceived)

\* C30: when a Binance resync completes on a pair that an earlier resync has
\* already synchronized (syncing=false, the book being the installed snapshot
\* plus the received diffs), and the pair is synchronized afterwards, the book
\* is again the most recently installed snapshot plus every received diff
\* beyond its lastUpdateId.
C30_LaterResyncKeepsBook ==
    [][\A s \in Symbols : \A o \in DepthOutcomes :
          (/\ ex = "binance"
           /\ s \in Watched
           /\ Synchronized(states[s])
           /\ ContiguousFromOne(received)
           /\ states[s].bids = SnapshotPlusReceived(states[s])
           /\ DepthResyncDone(s, o)
           /\ Synchronized(states'[s]))
          => states'[s].bids = SnapshotPlusReceived(states'[s])]_vars

\* ---------------------------------------------------------------- C26
\* A buffered diff is stale against the snapshot marker M: Binance u <= M,
\* Bybit seq <= M, OKX ts <= M.
StaleAgainst(d, M) == (IF ex = "binance" THEN d.u ELSE MarkerOf(d)) <= M

RECURSIVE WithoutStale(_, _)
WithoutStale(buf, M) ==
    IF buf = <<>> THEN <<>>
    ELSE IF StaleAgainst(Head(buf), M) THEN WithoutStale(Tail(buf), M)
    ELSE <<Head(buf)>> \o WithoutStale(Tail(buf), M)

\* C26: for Binance, Bybit and OKX the book that installing a snapshot and
\* replaying the buffer leaves is the one it leaves when the buffer holds only
\* the diffs that are not stale against the snapshot's marker: no stale diff
\* is applied on top of the snapshot.
C26_StaleDiffsDiscarded ==
    ex \in {"binance", "bybit", "okx"}
        => ResyncThenReplay(snapshot, buffered)
              = ResyncThenReplay(snapshot, WithoutStale(buffered, snapshot.marker))

\* ------------------------------------------------ withRetry, withHttpRetry
\* arg is the call (which function, its options), ret its position: the
\* value of `attempt`, what fn did at each invocation so far, the delays
\* waited, and how the call ended if it has.
MaxRetryAttempts == 3

RetryOptions ==
    [maxAttempts : 1 .. MaxRetryAttempts, baseDelayMs : {1, 3}, maxDelayMs : {2, 5},
     backoffFactor : {1, 2}]

\* The errors fn throws in the calls of withRetry itself, and the
\* retryCondition functions, each given by the errors it accepts.
PlainErrors == {"e1", "e2"}

\* What req() does in withHttpRetry: a Response with a status, a network
\* failure (fetch rejects with a TypeError), or another rejection.
HttpStatuses == {200, 404, 500}
ReqOutcomes ==
    {[kind |-> "response", status |-> s] : s \in HttpStatuses}
        \cup {[kind |-> "TypeError", status |-> 0], [kind |-> "AbortError", status |-> 0]}

DefaultRetryStatusCodes == {429, 500, 502, 503, 504}

RECURSIVE Pow(_, _)
Pow(b, n) == IF n = 0 THEN 1 ELSE b * Pow(b, n - 1)

Min(a, b) == IF a < b THEN a ELSE b

\* The delay without the cap of maxDelayMs.
RetryDelayUncapped(o, attempt) == o.baseDelayMs * Pow(o.backoffFactor, attempt)

\* Math.min(baseDelayMs * Math.pow(backoffFactor, attempt), maxDelayMs)
RetryDelay(o, attempt) ==
    Min(o.baseDelayMs * Pow(o.backoffFactor, attempt), o.maxDelayMs)

\* The error invocation number `at` threw: each invocation throws an object
\* of its own.
RetryError(type, status, at) == [type |-> type, status |-> status, at |-> at]

\* The function withHttpRetry hands to withRetry, on what req() did.
HttpFn(r, at) ==
    IF r.kind = "response"
    THEN IF r.status >= 200 /\ r.status <= 299
         THEN [ok |-> TRUE, error |-> RetryError("", 0, at)]
         ELSE [ok |-> FALSE, error |-> RetryError("Error", r.status, at)]
    ELSE [ok |-> FALSE, error |-> RetryError(r.kind, 0, at)]

\* fn of a direct call of withRetry.
PlainFn(kind, at) ==
    IF kind = "ok" THEN [ok |-> TRUE, error |-> RetryError("", 0, at)]
    ELSE [ok |-> FALSE, error |-> RetryError(kind, 0, at)]

\* retryCondition(error): the function passed by the caller, or the one
\* withHttpRetry builds.
RetryCondition(call, error) ==
    IF call.fn = "withHttpRetry"
    THEN \/ call.retryOnNetworkError /\ error.type = "TypeError"
         \/ error.status # 0 /\ error.status \in call.retryStatusCodes
    ELSE error.type \in call.retryable

RetryStart == [status |-> "running", attempt |-> 0, results |-> <<>>, delays |-> <<>>,
               error |-> RetryError("", 0, 0)]

\* One iteration of the loop of withRetry, fn having settled as `out`; the
\* wait before the next iteration is part of it.
RetryIteration(call, r, out) ==
    LET o == call.options
        r1 == [r EXCEPT !.results = Append(@, out)]
    IN  IF out.ok THEN [r1 EXCEPT !.status = "returned"]
        ELSE IF r.attempt = o.maxAttempts - 1
        THEN [r1 EXCEPT !.status = "thrown", !.error = out.error]
        ELSE IF ~RetryCondition(call, out.error)
        THEN [r1 EXCEPT !.status = "thrown", !.error = out.error]
        ELSE [r1 EXCEPT !.attempt = @ + 1, !.error = out.error,
                        !.delays = Append(@, RetryDelay(o, r.attempt))]

RetryCalls ==
    {[fn |-> "withRetry", options |-> o, retryable |-> c,
      retryOnNetworkError |-> FALSE, retryStatusCodes |-> {}] :
        o \in RetryOptions, c \in SUBSET PlainErrors}
    \cup
    {[fn |-> "withHttpRetry", options |-> o, retryable |-> {},
      retryOnNetworkError |-> n, retryStatusCodes |-> DefaultRetryStatusCodes] :
        o \in RetryOptions, n \in BOOLEAN}

\* withRetry(fn, options) or withHttpRetry(req, options) is called.
CallWithRetry(call) ==
    /\ arg = Idle
    /\ arg' = call
    /\ ret' = RetryStart
    /\ UNCHANGED <<clientVars, outVars, applyVars, replayVars, engineVars, fees, seen,
                   converterVars>>

\* fn settles, and the loop runs up to its next `await fn()` or to its end.
RetryAttempt(out) ==
    /\ arg # Idle
    /\ ret.status = "running"
    /\ ret' = RetryIteration(arg, ret, out)
    /\ UNCHANGED <<clientVars, outVars, applyVars, replayVars, engineVars, arg, fees, seen,
                   converterVars>>

FnOutcomes ==
    IF arg = Idle THEN {}
    ELSE IF arg.fn = "withHttpRetry"
    THEN {HttpFn(r, Len(ret.results) + 1) : r \in ReqOutcomes}
    ELSE {PlainFn(k, Len(ret.results) + 1) : k \in {"ok"} \cup PlainErrors}

RetryNext ==
    \/ \E call \in RetryCalls : CallWithRetry(call)
    \/ \E out \in FnOutcomes : RetryAttempt(out)

SpecRetry == PureInit /\ [][RetryNext]_vars

\* ---------------------------------------------------------------- C29
Failed(k) == ~ret.results[k].ok

\* C29: fn is invoked at most maxAttempts times; a call that has failed
\* maxAttempts times has thrown the error of the last invocation; the wait
\* after the k-th failed attempt that is followed by another attempt is
\* min(baseDelayMs * backoffFactor^(k-1), maxDelayMs); an error that
\* retryCondition rejects is thrown at once: it is the error of the last
\* invocation made, and nothing is waited after it.
C29_BoundedBackoff ==
    arg # Idle =>
        LET o == arg.options
            n == Len(ret.results)
        IN  /\ n <= o.maxAttempts
            /\ ret.status = "running" => n < o.maxAttempts
            /\ \A k \in 1 .. n : k < n => Failed(k)
            /\ (n = o.maxAttempts /\ Failed(n))
                  => ret.status = "thrown" /\ ret.error = ret.results[n].error
            /\ ret.status = "thrown" => Failed(n) /\ ret.error = ret.results[n].error
            /\ Len(ret.delays) = (IF ret.status = "running" THEN n ELSE n - 1)
            /\ \A k \in 1 .. Len(ret.delays) :
                  ret.delays[k] = Min(o.baseDelayMs * Pow(o.backoffFactor, k - 1), o.maxDelayMs)
            /\ \A k \in 1 .. n :
                  (Failed(k) /\ ~RetryCondition(arg, ret.results[k].error))
                     => /\ k = n
                        /\ ret.status = "thrown"
                        /\ ret.error = ret.results[k].error
                        /\ Len(ret.delays) = k - 1

\* withHttpRetry gave up after maxAttempts failures of req, the last wait
\* having been cut to maxDelayMs.
C29_Witness ==
    /\ arg # Idle
    /\ arg.fn = "withHttpRetry"
    /\ ret.status = "thrown"
    /\ Len(ret.results) = arg.options.maxAttempts
    /\ Len(ret.results) = MaxRetryAttempts
    /\ ret.delays[Len(ret.delays)] = arg.options.maxDelayMs
    /\ arg.options.baseDelayMs * Pow(arg.options.backoffFactor, Len(ret.delays) - 1)
          > arg.options.maxDelayMs

\* ---------------------------------------------------------------- C31
\* C31: when a Binance resync leaves the pair synchronized, lastEventU is
\* unset or at least the lastUpdateId of the snapshot just installed.
C31_MarkerNotOlderThanSnapshot ==
    [][\A s \in Symbols : \A o \in DepthOutcomes :
          (/\ ex = "binance"
           /\ s \in Watched
           /\ o.kind = "ok"
           /\ DepthResyncDone(s, o)
           /\ Synchronized(states'[s]))
          => \/ states'[s].lastEventU = Null
             \/ states'[s].lastEventU >= states'[s].lastUpdateId]_vars

\* ---------------------------------------------------------------- C32
\* Something is under way that will call resync(s) or install a snapshot
\* for s: a resync awaits its REST answer, a Coinbase timer (resync timer,
\* resubscribe delay) is armed, a watchPair or reconnect awaits the socket, or
\* the onclose -> reconnect() chain is running.
ResyncPending(s) ==
    \/ inflight[s] > 0
    \/ states[s].syncTimer
    \/ resub[s].att > 0 \/ resub[s].det > 0
    \/ orphans[s] > 0
    \/ connWait # NoWait
    \/ rc # "idle"

\* C32: a watched Binance or Coinbase symbol that is buffering (syncing =
\* true) always has a resync attempt under way or scheduled; a failed resync
\* does not leave it buffering with nothing that would ever end it.
C32_SyncingHasResyncPending ==
    ex \in {"binance", "coinbase"}
        => \A s \in Watched : states[s].syncing => ResyncPending(s)

\* ---------------------------------------------------------------- C33
\* C33: after unwatchPair(s) of the Binance or Coinbase client the stream of
\* s is not in the desired set, whatever the state of the socket was.
C33_UnwatchLeavesDesired ==
    [][\A s \in Symbols :
          (ex \in {"binance", "coinbase"} /\ Unwatch(s)) => s \notin desired']_vars

\* ------------------------------------------------- stacking of modifiers
\* Fee files whose modifiers carry every combination of the three stacking
\* flags (each flag absent, or set to the value the code tests for).
StackingRecords ==
    LET flags == {[f \in S |-> IF f = "exclusive" THEN TRUE ELSE FALSE] :
                     S \in SUBSET {"exclusive", "withOtherModifiers", "withDiscounts"}}
    IN  flags

WithStacking(mod, st) == IF DOMAIN st = {} THEN mod ELSE mod @@ ("stacking" :> st)

PromoModifiers == {WithStacking(HalfModifier, st) : st \in StackingRecords}

SurchargeModifiers ==
    {WithStacking([id |-> "surcharge", effect |-> [mode |-> "add", taker |-> Dec(1, 10000)]],
                  st) : st \in StackingRecords}

StackingLists ==
    {<<>>}
        \cup {<<m>> : m \in PromoModifiers \cup SurchargeModifiers}
        \cup {<<p, s>> : p \in PromoModifiers, s \in SurchargeModifiers}
        \cup {<<s, p>> : p \in PromoModifiers, s \in SurchargeModifiers}

StackingFeeDatas ==
    {FeeFile(mods) : mods \in StackingLists}
        \cup {FeeFile(mods) @@ ("tokenDiscount" :> QuarterDiscount) : mods \in StackingLists}

StackingContexts ==
    Optional({[pair |-> "BTC/USDT", exec |-> "taker"]}, "feeAsset", {"bnb", "USDT"})

StackingInit ==
    /\ ex = "binance"
    /\ ClientInit
    /\ book = NoMaps
    /\ last = NoMaps
    /\ snapshot = NoSnap
    /\ buffered = <<>>
    /\ received = <<>>
    /\ arg = Idle
    /\ ret = Idle
    /\ fees \in StackingFeeDatas
    /\ seen = <<>>
    /\ currentPair = ""
    /\ liveReady = FALSE
    /\ costOn = "none"
    /\ hook = HookNew
    /\ ConverterNew

StackingNext ==
    \E ctx \in StackingContexts :
        /\ ctx \in SeenContexts \/ Len(seen) < MaxCalls
        /\ EvaluateFees(ctx)

SpecStacking == StackingInit /\ [][StackingNext]_vars

\* The stacking flag of a modifier, read off the fee file.
Flagged(mod, flag) ==
    /\ "stacking" \in DOMAIN mod
    /\ flag \in DOMAIN mod.stacking
    /\ mod.stacking[flag] = (flag = "exclusive")

Halts(mod) == Flagged(mod, "exclusive") \/ Flagged(mod, "withOtherModifiers")

\* The modifiers that apply: those that match, up to and including the first
\* one that halts the evaluation.
AppliedModifiers(fd, ctx) ==
    {i \in MatchingModifiers(fd, ctx) :
        \A j \in MatchingModifiers(fd, ctx) : j < i => ~Halts(fd.modifiers[j])}

\* What the fee file and the context require of the token discount, apart
\* from the stacking flags.
DiscountConditionsMet(fd, ctx) ==
    /\ "tokenDiscount" \in DOMAIN fd
    /\ fd.tokenDiscount.order = "after_modifiers"
    /\ "feeAsset" \in DOMAIN ctx
    /\ ToUpperCase(ctx.feeAsset) = ToUpperCase(fd.tokenDiscount.requires.feeAsset)

TrailOfType(trail, types) == SelectSeq(trail, LAMBDA e : e.type \in types)

\* ---------------------------------------------------------------- C34
\* C34: when a modifier that applied has stacking.withDiscounts = false, the
\* trail has no token-discount entry and the final taker rate is the rate
\* the last modifier left, whatever the other flags of that modifier.
C34_WithDiscountsFalseSuppresses ==
    (Evaluated
        /\ \E i \in AppliedModifiers(fees, arg) : Flagged(fees.modifiers[i], "withDiscounts"))
    => /\ TrailOfType(ret.feeRateAnalysis, {"token_discount"}) = <<>>
       /\ ret.final.taker = ret.feeRateAnalysis[Len(ret.feeRateAnalysis)].rate

\* ---------------------------------------------------------------- C35
\* The trail entries modifiers wrote, by modifier id, in trail order.
TrailModifierIds(trail) ==
    LET es == TrailOfType(trail, ModifierModes)
    IN  [k \in 1 .. Len(es) |-> es[k].id[Len(es[k].id)]]

\* The ids of the modifiers that apply, in evaluation order.
AppliedIds(fd, ctx) ==
    LET mods == fd.modifiers
        keep == SelectSeq([i \in 1 .. Len(mods) |-> [i |-> i, id |-> mods[i].id]],
                          LAMBDA e : e.i \in AppliedModifiers(fd, ctx))
    IN  [k \in 1 .. Len(keep) |-> keep[k].id]

HaltingApplied(fd, ctx) == {i \in AppliedModifiers(fd, ctx) : Halts(fd.modifiers[i])}

\* C35: once a modifier marked exclusive or withOtherModifiers = false has
\* applied, the trail holds entries for the modifiers up to it and for no
\* later one, the final taker rate is the rate that modifier left, less the
\* token discount if that was applied, and a token discount whose
\* conditions are met (and that no applied modifier barred) is still the
\* last entry of the trail.
C35_HaltStopsModifiersNotDiscount ==
    (Evaluated /\ HaltingApplied(fees, arg) # {})
    => /\ TrailModifierIds(ret.feeRateAnalysis) = AppliedIds(fees, arg)
       /\ LET es   == TrailOfType(ret.feeRateAnalysis, ModifierModes)
              left == es[Len(es)].rate
          IN  ret.final.taker
                  = IF TrailOfType(ret.feeRateAnalysis, {"token_discount"}) = <<>>
                    THEN left ELSE ApplyDiscount(left, fees.tokenDiscount)
       /\ (/\ DiscountConditionsMet(fees, arg)
           /\ \A i \in AppliedModifiers(fees, arg) :
                  ~Flagged(fees.modifiers[i], "withDiscounts"))
          => ret.feeRateAnalysis[Len(ret.feeRateAnalysis)].type = "token_discount"

\* A halting modifier applied first, a second matching modifier follows it,
\* and the token discount was applied.
C35_Witness ==
    /\ Evaluated
    /\ Len(fees.modifiers) = 2
    /\ HaltingApplied(fees, arg) = {1}
    /\ MatchingModifiers(fees, arg) = {1, 2}
    /\ Len(TrailOfType(ret.feeRateAnalysis, ModifierModes)) = 1
    /\ TrailOfType(ret.feeRateAnalysis, {"token_discount"}) # <<>>

\* ---------------------------------------------------------------- C36
\* The multiples of the tick in reach of the prices.
GridOf(tick) == {m \in 0 .. (MaxBucketPrice + tick) : m % tick = 0}

\* floor(price/tick)*tick is the greatest grid price not above the price,
\* ceil(price/tick)*tick the least grid price not below it.
GridBelow(price, tick) == CHOOSE m \in GridOf(tick) : m <= price /\ price < m + tick
GridAbove(price, tick) == CHOOSE m \in GridOf(tick) : m >= price /\ price > m - tick

RECURSIVE QuantityOf(_, _)
QuantityOf(levels, I) ==
    IF I = {} THEN 0
    ELSE LET i == CHOOSE i \in I : TRUE
         IN  levels[i].quantity + QuantityOf(levels, I \ {i})

TotalQuantity(levels) == QuantityOf(levels, DOMAIN levels)

\* One side of the result against the side it was made from: its prices are
\* the re-keyed prices, each once, its quantities the sums over the levels
\* that share the bucket, and its order the order of the side.
BucketedSide(out, in, tick, bid) ==
    LET keyOf(p) == IF bid THEN GridBelow(p, tick) ELSE GridAbove(p, tick)
    IN  /\ {out[k].price : k \in DOMAIN out} = {keyOf(in[i].price) : i \in DOMAIN in}
        /\ \A k \in DOMAIN out :
               out[k].quantity
                   = QuantityOf(in, {i \in DOMAIN in : keyOf(in[i].price) = out[k].price})
        /\ TotalQuantity(out) = TotalQuantity(in)
        /\ \A k \in 1 .. (Len(out) - 1) :
               IF bid THEN out[k].price > out[k + 1].price
               ELSE out[k].price < out[k + 1].price

\* C36: with a tick above 0 every bid is re-keyed to floor(price/tick)*tick
\* and every ask to ceil(price/tick)*tick, levels that meet in a bucket have
\* their quantities summed so that the total of a side is kept, bids come
\* back descending and asks ascending; with no tick or a tick of 0 or less
\* the book comes back as it was.
C36_BucketizeRekeysAndSums ==
    Evaluated
    => IF arg.tick > 0
       THEN /\ BucketedSide(ret.once.bids, arg.book.bids, arg.tick, TRUE)
            /\ BucketedSide(ret.once.asks, arg.book.asks, arg.tick, FALSE)
       ELSE ret.once = arg.book

\* Two asks off the grid met in one bucket above them and their quantities
\* were summed, while the two bids went to buckets of their own and came
\* back in the other order.
C36_Witness ==
    /\ Evaluated /\ arg.tick = MaxTick
    /\ Len(arg.book.asks) = 2 /\ Len(ret.once.asks) = 1
    /\ arg.book.asks[1].price % arg.tick # 0
    /\ arg.book.asks[1].quantity > 0 /\ arg.book.asks[2].quantity > 0
    /\ ret.once.asks[1].price > arg.book.asks[1].price
    /\ ret.once.asks[1].quantity = arg.book.asks[1].quantity + arg.book.asks[2].quantity
    /\ Len(ret.once.bids) = 2
    /\ arg.book.bids[1].price < arg.book.bids[2].price
    /\ ret.once.bids[1].price > ret.once.bids[2].price

\* ------------------------------------------------- the tie-break cascade
\* Breakdowns whose spend lies on rungs one tolerance apart and whose other
\* numbers are equal or more than a tolerance apart.
CascadeBreakdowns(side) ==
    {[priced |-> TRUE,
      totalTradeUsd |-> IF side = "buy" THEN s ELSE 0,
      netBaseReceived |-> IF side = "buy" THEN n ELSE 0,
      totalBase |-> IF side = "buy" THEN 0 ELSE s,
      netQuoteReceived |-> IF side = "buy" THEN 0 ELSE n,
      totalReceivedUsd |-> IF side = "buy" THEN 0 ELSE n,
      slippage |-> sl, feeUsd |-> f, averagePrice |-> p] :
        s \in RankRungs, n \in {0, 3}, sl \in {0, 3}, f \in {0, 3}, p \in {0, 3}}

\* The third exchange has no breakdown, or one without slippage and fee.
CascadeThird(side) ==
    {bd \in CascadeBreakdowns(side) :
        bd.slippage = 0 /\ bd.feeUsd = 0 /\ bd.averagePrice = 0} \cup {NoBreakdown}

CascadeMaps(side) ==
    {[id \in ExchangeIds |->
         IF id = "Binance" THEN a ELSE IF id = "Bybit" THEN b
         ELSE IF id = "OKX" THEN c ELSE NoBreakdown] :
        a \in CascadeBreakdowns(side), b \in CascadeBreakdowns(side),
        c \in CascadeThird(side)}

CascadeInputs(side) ==
    [selected : {<<"Binance", "Bybit", "OKX">>},
     side : {side},
     costBreakdownMap : CascadeMaps(side),
     errors : {{}}]

RankCascade ==
    /\ arg = Idle
    /\ \E side \in {"buy", "sell"} : \E in \in CascadeInputs(side) :
          /\ arg' = in
          /\ ret' = [order |-> CalculateRankedExchanges(in),
                     again |-> CalculateRankedExchanges(in)]
    /\ UNCHANGED <<clientVars, outVars, applyVars, replayVars, engineVars, fees, seen, converterVars>>

CascadeNext == RankCascade

SpecCascade == PureInit /\ [][CascadeNext]_vars

\* The criteria of the cascade in order, each turned so that the lower
\* value is the better one.
CascadeKeys(bd, side) ==
    IF side = "buy"
    THEN <<bd.totalTradeUsd, 0 - bd.netBaseReceived, bd.slippage, bd.feeUsd, bd.averagePrice>>
    ELSE <<bd.totalBase, 0 - bd.totalReceivedUsd, bd.slippage, bd.feeUsd, 0 - bd.averagePrice>>

BeyondEpsilon(x, y) == Abs(x - y) > RankTolerance

\* The first criterion on which two breakdowns differ beyond epsilon, 0 if
\* there is none.
FirstDeciding(A, B, side) ==
    LET a == CascadeKeys(A, side)
        b == CascadeKeys(B, side)
        D == {k \in DOMAIN a : BeyondEpsilon(a[k], b[k])}
    IN  IF D = {} THEN 0 ELSE CHOOSE k \in D : \A j \in D : k <= j

ScoresTied(A, B, side) ==
    /\ A.priced /\ B.priced
    /\ ~BeyondEpsilon(EffectivePrice(A, side).v, EffectivePrice(B, side).v)

\* The cascade puts A before B.
CascadePrefers(A, B, side) ==
    LET k == FirstDeciding(A, B, side)
    IN  k # 0 /\ CascadeKeys(A, side)[k] < CascadeKeys(B, side)[k]

\* ---------------------------------------------------------------- C37
\* C37: of two ranked breakdowns whose effective prices are equal within
\* epsilon, the one that the first criterion differing beyond epsilon
\* favours (spend then base received on a buy, base sold then USD received
\* on a sell; then slippage rate; then fee in USD; then raw average price)
\* stands before the other in the ranking.
C37_CascadeDecidesOrder ==
    Evaluated
    => \A i, j \in DOMAIN ret.order :
           LET A == arg.costBreakdownMap[ret.order[i]]
               B == arg.costBreakdownMap[ret.order[j]]
           IN  (ScoresTied(A, B, arg.side) /\ CascadePrefers(A, B, arg.side)) => i < j

\* ------------------------------------------------------ useExchangeEngine
\* The hook for one exchange id that supports the trading pair, with the
\* price bucket known and a positive order size.
MaxTimeouts == 2
MaxWatchOps == 3
MaxCalcs == 2
MaxOpSeq == 3

HookPairs == {"BTCUSDT", "ETHUSDT"}

Settled == {"ok", "failed"}

\* bumpSeq(id)
BumpSeq(h) == [h EXCEPT !.opSeq = @ + 1]

\* clearTimers(id): window.clearTimeout(t) and recomputeTimers[id] = null.
\* cleared records that an emission was waiting for the timer taken away.
ClearTimers(h) ==
    IF h.recomputeTimers = NoTimer THEN h
    ELSE [h EXCEPT !.timeouts = @ \ {h.recomputeTimers.t},
                   !.recomputeTimers = NoTimer,
                   !.cleared = h.owed]

\* clearState(id)
ClearState(h) == [h EXCEPT !.costBreakdownMap = "undefined", !.errors = "null"]

\* A handle window.setTimeout has not got pending.
NewHandle(h) == CHOOSE t \in 1 .. MaxTimeouts : t \notin h.timeouts

\* A scheduleRecompute that sets a timer whether or not one is pending.
ScheduleRecomputeAlways(h) ==
    IF h.paused THEN h
    ELSE [h EXCEPT !.recomputeTimers = [t |-> NewHandle(h)],
                   !.timeouts = @ \cup {NewHandle(h)}]

\* scheduleRecompute(id)
ScheduleRecompute(h) ==
    IF h.paused THEN h
    ELSE IF h.recomputeTimers # NoTimer THEN h
    ELSE [h EXCEPT !.recomputeTimers = [t |-> NewHandle(h)],
                   !.timeouts = @ \cup {NewHandle(h)}]

\* calculateCost(id) up to its await: the guards, then adapter.calculateCost
\* is in flight.
CalculateCostStart(h) ==
    IF h.paused \/ h.pairKeyByEx = "" \/ ~h.liveReady THEN h
    ELSE [h EXCEPT !.calcs = @ + 1]

\* enqueueWatchOperation(id, operation) for the operation of watchPair(id,
\* base, quote): one more link of the chain, not yet started.
EnqueueWatchOperation(h, nextKey) ==
    [h EXCEPT !.watchMutex =
        Append(@, [nextKey |-> nextKey, at |-> "queued", seqAtStart |-> 0])]

\* An operation starts at once, whatever the state of the one before it.
WatchStartableAtOnce(h, k) == h.watchMutex[k].at = "queued"

\* prevPromise.then(() => operation()): the operation starts when the
\* promise of the link before it has settled; .catch makes a failed
\* operation settle its link too.
WatchStartable(h, k) ==
    /\ h.watchMutex[k].at = "queued"
    /\ IF k = 1 THEN TRUE ELSE h.watchMutex[k - 1].at \in Settled

\* ensureSubscribed(id)
EnsureSubscribed(h) == IF ~h.selected THEN h ELSE [h EXCEPT !.subs = TRUE]

\* disconnectExchange(id)
DisconnectExchange(h) ==
    ClearState([ClearTimers(BumpSeq(h)) EXCEPT
                   !.pairKeyByEx = "", !.liveReady = FALSE, !.subs = FALSE])

HookStep(h) ==
    /\ hook' = h
    /\ UNCHANGED <<clientVars, outVars, applyVars, replayVars, pureVars,
                   currentPair, liveReady, costOn>>

\* The exchange is selected: ensureSubscribed and watchPair.
HookSelect ==
    /\ ~hook.selected
    /\ Len(hook.watchMutex) < MaxWatchOps
    /\ LET h == EnsureSubscribed([hook EXCEPT !.selected = TRUE])
       IN  HookStep(EnqueueWatchOperation(h, h.tradingPair))

\* The exchange is deselected: disconnectExchange(id, 'deselected').
HookDeselect ==
    /\ hook.selected
    /\ hook.opSeq < MaxOpSeq
    /\ HookStep(DisconnectExchange([hook EXCEPT !.selected = FALSE]))

\* The trading pair changes to another one: clearTimers for the selected
\* exchanges, then ensureSubscribed and watchPair.
HookTradingPair(pair) ==
    /\ pair # hook.tradingPair
    /\ Len(hook.watchMutex) < MaxWatchOps
    /\ LET h == [hook EXCEPT !.tradingPair = pair]
       IN  HookStep(IF h.selected
                    THEN EnqueueWatchOperation(EnsureSubscribed(ClearTimers(h)), pair)
                    ELSE h)

\* paused changes; on unpausing the effect calls calculateCost.
HookPaused ==
    LET h == [hook EXCEPT !.paused = ~@]
    IN  /\ hook.calcs < MaxCalcs
        /\ HookStep(IF ~h.paused /\ h.selected THEN CalculateCostStart(h) ELSE h)

\* The operation at the head of the chain starts: await sleep(100).
HookWatchStart(k) ==
    /\ WatchStartable(hook, k)
    /\ HookStep([hook EXCEPT !.watchMutex[k].at = "sleep"])

\* The operation past its sleep: bumpSeq, the checks, the unwatch of
\* another pair, and the call of adapter.watchLivePair.
HookWatchCall(k) ==
    /\ hook.watchMutex[k].at = "sleep"
    /\ hook.opSeq < MaxOpSeq
    /\ LET h  == BumpSeq(hook)
           op == h.watchMutex[k]
       IN  HookStep(
             IF ~h.selected THEN [h EXCEPT !.watchMutex[k].at = "ok"]
             ELSE [h EXCEPT !.watchMutex[k].at = "watching",
                            !.watchMutex[k].seqAtStart = h.opSeq,
                            !.liveReady =
                                IF h.pairKeyByEx # "" /\ h.pairKeyByEx # op.nextKey
                                THEN FALSE ELSE @])

\* adapter.watchLivePair settles: rejected, the operation fails and the
\* chain's catch logs it; resolved, the operation checks that it is not
\* stale and takes the pair over.
HookWatchSettle(k, resolved) ==
    /\ hook.watchMutex[k].at = "watching"
    /\ LET op == hook.watchMutex[k]
       IN  HookStep(
             IF ~resolved THEN [hook EXCEPT !.watchMutex[k].at = "failed"]
             ELSE IF hook.opSeq # op.seqAtStart \/ ~hook.selected
             THEN [hook EXCEPT !.watchMutex[k].at = "ok", !.liveReady = FALSE]
             ELSE ClearState([hook EXCEPT !.watchMutex[k].at = "ok",
                                          !.pairKeyByEx = op.nextKey]))

\* The adapter emits a book of a pair to the listener of ensureSubscribed.
\* owed: an emission was accepted and no timer callback has run since.
HookLiveBook(pairKey) ==
    /\ hook.subs
    /\ IF hook.pairKeyByEx # pairKey \/ hook.paused THEN HookStep(hook)
       ELSE HookStep(ScheduleRecompute([hook EXCEPT !.liveReady = TRUE, !.owed = TRUE,
                                                     !.cleared = FALSE]))

\* A pending timeout fires: the callback of scheduleRecompute.
HookTimerFire(t) ==
    /\ t \in hook.timeouts
    /\ hook.calcs < MaxCalcs
    /\ LET h == [hook EXCEPT !.timeouts = @ \ {t}, !.recomputeTimers = NoTimer,
                             !.owed = FALSE, !.cleared = FALSE]
       IN  HookStep(IF h.paused \/ ~h.selected \/ h.pairKeyByEx = "" \/ ~h.liveReady
                    THEN h ELSE CalculateCostStart(h))

\* adapter.calculateCost settles: calculateCost stores the breakdown, or
\* the error it caught.
HookCalcSettle(resolved) ==
    /\ hook.calcs > 0
    /\ HookStep(IF resolved
                THEN [hook EXCEPT !.calcs = @ - 1, !.costBreakdownMap = "breakdown",
                                  !.errors = "null"]
                ELSE [hook EXCEPT !.calcs = @ - 1, !.costBreakdownMap = "undefined",
                                  !.errors = "message"])

HookNext ==
    \/ HookSelect
    \/ HookDeselect
    \/ \E pair \in HookPairs : HookTradingPair(pair)
    \/ HookPaused
    \/ \E k \in 1 .. MaxWatchOps : k <= Len(hook.watchMutex) /\ HookWatchStart(k)
    \/ \E k \in 1 .. MaxWatchOps : k <= Len(hook.watchMutex) /\ HookWatchCall(k)
    \/ \E k \in 1 .. MaxWatchOps : \E resolved \in BOOLEAN :
           k <= Len(hook.watchMutex) /\ HookWatchSettle(k, resolved)
    \/ \E pairKey \in HookPairs : HookLiveBook(pairKey)
    \/ \E t \in 1 .. MaxTimeouts : HookTimerFire(t)
    \/ \E resolved \in BOOLEAN : HookCalcSettle(resolved)

SpecHook == PureInit /\ [][HookNext]_vars

\* ---------------------------------------------------------------- C39
\* C39: the operations enqueued for the exchange run one after another in
\* enqueue order: an operation that has started has every operation
\* enqueued before it settled, resolved or failed.
C39_WatchOperationsSerialized ==
    \A k \in DOMAIN hook.watchMutex :
        hook.watchMutex[k].at # "queued"
            => \A j \in 1 .. (k - 1) : hook.watchMutex[j].at \in Settled

\* The first operation failed, the second one runs after it and the third
\* one waits for the second.
C39_Witness ==
    /\ Len(hook.watchMutex) = 3
    /\ hook.watchMutex[1].at = "failed"
    /\ hook.watchMutex[2].at = "watching"
    /\ hook.watchMutex[3].at = "queued"

\* ---------------------------------------------------------------- C40
\* C40: while the exchange is not selected its cost breakdown and its error
\* are cleared, a calculation that was in flight at the deselection
\* notwithstanding.
C40_DeselectedStaysCleared ==
    ~hook.selected => hook.costBreakdownMap = "undefined" /\ hook.errors = "null"

\* ---------------------------------------------------------------- C38
\* An emission the listener accepts: the pair is the watched one and the
\* hook is not paused.
Accepted(pairKey) == hook.subs /\ hook.pairKeyByEx = pairKey /\ ~hook.paused

TimerPending(h) == h.recomputeTimers # NoTimer /\ h.recomputeTimers.t \in h.timeouts

\* At most one timer is pending, and it is the one the hook holds.
AtMostOneTimer(h) ==
    /\ Cardinality(h.timeouts) <= 1
    /\ h.timeouts # {} => TimerPending(h)

\* An emission that is accepted while the timer is pending schedules
\* nothing: the burst ends in the one callback of that timer.
BurstSchedulesNothing ==
    \A pairKey \in HookPairs :
        (Accepted(pairKey) /\ TimerPending(hook) /\ HookLiveBook(pairKey))
            => /\ hook'.timeouts = hook.timeouts
               /\ hook'.recomputeTimers = hook.recomputeTimers

\* C38: the recompute is debounced: at most one timer is pending for the
\* exchange, emissions that arrive while it is pending schedule nothing, and
\* after every step an accepted emission that no callback has followed yet
\* has its timer pending, so that the callback runs within the window.
C38_DebouncedRecompute ==
    [][/\ AtMostOneTimer(hook')
       /\ BurstSchedulesNothing
       /\ hook'.owed => TimerPending(hook')]_vars

\* C38 with the exception of the emissions whose timer clearTimers took
\* away, on a disconnect of the exchange or a change of the trading pair.
C38_DebouncedUnlessCleared ==
    [][/\ AtMostOneTimer(hook')
       /\ BurstSchedulesNothing
       /\ (hook'.owed /\ ~hook'.cleared) => TimerPending(hook')]_vars

\* An emission was accepted, its timer is pending and a calculation of an
\* earlier window is still in flight.
C38_Witness ==
    /\ hook.owed /\ TimerPending(hook)
    /\ hook.calcs > 0
    /\ hook.liveReady
====
